---- MODULE Spec2Model ----
(***************************************************************************)
(* A model of the app-flow studio: the architecture generation pipeline   *)
(* (AIFlowGenerator in src/lib/ai-flow-generator.ts) and the interactive  *)
(* diagram editor (FlowDiagramInner in src/components/flow).              *)
(*                                                                         *)
(* Encodings.  Strings built by template literals are looked up in fixed  *)
(* tables (ScreenId(3) = "screen_3").  A goal string is represented by    *)
(* the set of keyword families whose `includes` tests of analyzeGoal it   *)
(* satisfies.  A decoded payload is a record of its `screens` and         *)
(* `transitions` arrays; a missing or empty name is NoName.               *)
(***************************************************************************)
EXTENDS Integers, Sequences, FiniteSets, TLC

\* ------------------------------------------------------------------ bounds
\* Largest number of screens in a decoded payload.
MaxScreens == 3
\* Largest number of transitions in a decoded payload.
MaxTrans == 2

\* ------------------------------------------------------- string templates
ScreenIds ==
  << "screen_0", "screen_1", "screen_2", "screen_3", "screen_4", "screen_5",
     "screen_6", "screen_7", "screen_8", "screen_9", "screen_10", "screen_11",
     "screen_12", "screen_13", "screen_14", "screen_15" >>

\* `screen_${index}`
ScreenId(i) == ScreenIds[i + 1]

TransitionIds ==
  << "transition_0", "transition_1", "transition_2", "transition_3",
     "transition_4", "transition_5", "transition_6", "transition_7",
     "transition_8", "transition_9", "transition_10", "transition_11",
     "transition_12", "transition_13", "transition_14", "transition_15",
     "transition_16", "transition_17" >>

\* `transition_${index}`
TransitionId(i) == TransitionIds[i + 1]

FallbackTransitionIds ==
  << "fallback_transition_0", "fallback_transition_1", "fallback_transition_2",
     "fallback_transition_3", "fallback_transition_4", "fallback_transition_5",
     "fallback_transition_6", "fallback_transition_7", "fallback_transition_8" >>

\* The synthetic id without the running length: every synthetic transition
\* gets the same id.
FallbackTransitionId_Const(n) == FallbackTransitionIds[1]

\* `fallback_transition_${transitions.length}`
FallbackTransitionId(n) == FallbackTransitionIds[n + 1]

DefaultNames ==
  << "Screen 0", "Screen 1", "Screen 2", "Screen 3", "Screen 4", "Screen 5" >>

\* `Screen ${index}`
DefaultName(i) == DefaultNames[i + 1]

\* A screen name that is missing or empty in the payload (falsy).
NoName == ""

\* ------------------------------------------------------------ array helpers
\* Array.prototype.find on the `name` field: index of the first match, 0 if none.
FindByName(screens, name) ==
  IF \E i \in 1..Len(screens) : screens[i].name = name
  THEN CHOOSE i \in 1..Len(screens) :
         /\ screens[i].name = name
         /\ \A j \in 1..(i - 1) : screens[j].name # name
  ELSE 0

\* Array.prototype.find on a type predicate: index of the first match, 0 if none.
FindByType(screens, types) ==
  IF \E i \in 1..Len(screens) : screens[i].type \in types
  THEN CHOOSE i \in 1..Len(screens) :
         /\ screens[i].type \in types
         /\ \A j \in 1..(i - 1) : screens[j].type \notin types
  ELSE 0

Range(s) == { s[i] : i \in 1..Len(s) }

\* --------------------------------------------------------- fallback tables
FoodDeliveryScreenTable ==
  << <<"Welcome Splash", "loading">>, <<"Onboarding", "onboarding">>,
     <<"Sign Up", "auth">>, <<"Phone Verification", "verification">>,
     <<"Delivery Address", "form">>, <<"Restaurant Discovery", "home">>,
     <<"Restaurant Search", "search">>, <<"Restaurant Detail", "detail">>,
     <<"Menu Item Detail", "detail">>, <<"Shopping Cart", "cart">>,
     <<"Checkout", "checkout">>, <<"Order Confirmation", "detail">>,
     <<"Order Tracking", "map">>, <<"Order History", "list">>,
     <<"User Profile", "profile">>, <<"Favorites", "list">> >>

EcommerceScreenTable ==
  << <<"Welcome", "onboarding">>, <<"Product Discovery", "home">>,
     <<"Product Search", "search">>, <<"Product Details", "detail">>,
     <<"Shopping Cart", "cart">>, <<"User Registration", "auth">>,
     <<"Checkout", "checkout">>, <<"Order Confirmation", "detail">> >>

SocialScreenTable ==
  << <<"Welcome", "onboarding">>, <<"Sign Up", "auth">>,
     <<"Friend Discovery", "list">>, <<"News Feed", "feed">>,
     <<"Create Post", "form">>, <<"Messages", "chat">>,
     <<"User Profile", "profile">> >>

FoodDeliveryTransitionTable ==
  << <<0, 1>>, <<1, 2>>, <<2, 3>>, <<3, 4>>, <<4, 5>>,
     <<5, 6>>, <<5, 7>>, <<6, 7>>, <<7, 8>>, <<8, 9>>,
     <<9, 10>>, <<10, 11>>, <<11, 12>>,
     <<5, 13>>, <<5, 14>>, <<5, 15>>,
     <<13, 9>>, <<15, 7>> >>

EcommerceTransitionTable ==
  << <<0, 1>>, <<1, 2>>, <<1, 3>>, <<2, 3>>,
     <<3, 4>>, <<4, 5>>, <<5, 6>>, <<6, 7>> >>

SocialTransitionTable ==
  << <<0, 1>>, <<1, 2>>, <<2, 3>>, <<3, 4>>, <<3, 5>>, <<3, 6>> >>

\* Screens of a literal table, ids screen_0, screen_1, ... in order.
TableScreens(tbl) ==
  [ i \in 1..Len(tbl) |->
      [ id |-> ScreenId(i - 1), name |-> tbl[i][1], type |-> tbl[i][2] ] ]

\* Transitions of a literal table, ids transition_0, transition_1, ... in order.
TableTransitions(tbl) ==
  [ i \in 1..Len(tbl) |->
      [ id |-> TransitionId(i - 1),
        from |-> ScreenId(tbl[i][1]), to |-> ScreenId(tbl[i][2]) ] ]

\* --------------------------------------------------------------- analyzeGoal
FamilySet ==
  { "foodDelivery", "ecommerce", "social", "productivity", "fitness",
    "finance", "travel", "education", "entertainment", "news" }

\* The goals explored: no keyword, one keyword family, and two goals that
\* match two families (the classifier takes the first family of its chain).
Goals ==
  {{}} \cup { {f} : f \in FamilySet }
       \cup { {"social", "foodDelivery"}, {"productivity", "news"} }

appTypeOf(goal) ==
  IF "foodDelivery" \in goal THEN "foodDelivery"
  ELSE IF "ecommerce" \in goal THEN "ecommerce"
  ELSE IF "social" \in goal THEN "social"
  ELSE IF "productivity" \in goal THEN "productivity"
  ELSE IF "fitness" \in goal THEN "fitness"
  ELSE IF "finance" \in goal THEN "finance"
  ELSE IF "travel" \in goal THEN "travel"
  ELSE IF "education" \in goal THEN "education"
  ELSE IF "entertainment" \in goal THEN "entertainment"
  ELSE IF "news" \in goal THEN "news"
  ELSE "general"

appNameOf(appType) ==
  CASE appType = "foodDelivery" -> "Food Delivery App"
    [] appType = "ecommerce" -> "E-commerce App"
    [] appType = "social" -> "Social App"
    [] appType = "productivity" -> "Productivity App"
    [] appType = "fitness" -> "Fitness App"
    [] appType = "finance" -> "Finance App"
    [] appType = "travel" -> "Travel App"
    [] appType = "education" -> "Learning App"
    [] appType = "entertainment" -> "Entertainment App"
    [] appType = "news" -> "News App"
    [] OTHER -> "My App"

analyzeGoal(goal) ==
  LET appType == appTypeOf(goal) IN
  [ appType |-> appType,
    appName |-> appNameOf(appType),
    features |-> [ hasAuth |-> TRUE,
                   hasOnboarding |-> TRUE,
                   hasDashboard |-> appType # "productivity",
                   hasProfile |-> TRUE,
                   hasSettings |-> TRUE ],
    originalGoal |-> goal ]

\* ------------------------------------------------------------ generateScreens
generateGeneralAppScreens(analysis) ==
  LET f == analysis.features
      tbl == << <<"Welcome", "onboarding">> >>
             \o (IF f.hasAuth
                 THEN << <<"Sign Up", "auth">>, <<"Login", "auth">> >>
                 ELSE << >>)
             \o (IF f.hasDashboard
                 THEN << <<"Dashboard", "dashboard">> >>
                 ELSE << >>)
             \o << <<"Main List", "list">>, <<"Item Details", "detail">>,
                   <<"Create/Edit", "form">> >>
             \o (IF f.hasProfile THEN << <<"Profile", "profile">> >> ELSE << >>)
             \o (IF f.hasSettings THEN << <<"Settings", "settings">> >> ELSE << >>)
  IN TableScreens(tbl)

generateScreens(analysis) ==
  IF analysis.appType = "foodDelivery" THEN TableScreens(FoodDeliveryScreenTable)
  ELSE IF analysis.appType = "ecommerce" THEN TableScreens(EcommerceScreenTable)
  ELSE IF analysis.appType = "social" THEN TableScreens(SocialScreenTable)
  ELSE generateGeneralAppScreens(analysis)

\* -------------------------------------------------------- generateTransitions
\* The linear flow with its loop bound one short: the last screen gets no
\* incoming transition.
generateGeneralTransitions_ShortChain(screens) ==
  [ i \in 1..(IF Len(screens) < 2 THEN 0 ELSE Len(screens) - 2) |->
      [ id |-> TransitionId(i - 1),
        from |-> screens[i].id, to |-> screens[i + 1].id ] ]

generateGeneralTransitions(screens) ==
  LET linear == [ i \in 1..(IF Len(screens) = 0 THEN 0 ELSE Len(screens) - 1) |->
                    [ id |-> TransitionId(i - 1),
                      from |-> screens[i].id, to |-> screens[i + 1].id ] ]
      li == FindByType(screens, {"list"})
      di == FindByType(screens, {"detail"})
  IN IF Len(screens) > 3 /\ li # 0 /\ di # 0
     THEN Append(linear, [ id |-> TransitionId(Len(linear)),
                           from |-> screens[di].id, to |-> screens[li].id ])
     ELSE linear

generateTransitions(screens, analysis) ==
  IF analysis.appType = "foodDelivery" THEN TableTransitions(FoodDeliveryTransitionTable)
  ELSE IF analysis.appType = "ecommerce" THEN TableTransitions(EcommerceTransitionTable)
  ELSE IF analysis.appType = "social" THEN TableTransitions(SocialTransitionTable)
  ELSE generateGeneralTransitions(screens)

\* The fallback generator; t is the value of Date.now() when it runs.
generateMockArchitecture(goal, t) ==
  LET analysis == analyzeGoal(goal)
      screens == generateScreens(analysis)
  IN [ id |-> t,
       name |-> analysis.appName,
       screens |-> screens,
       transitions |-> generateTransitions(screens, analysis) ]

\* ------------------------------------------------------------ decoded payload
\* Screen names a payload may carry (NoName: the field is missing or empty).
PayloadNames == { "A", NoName }

\* Strings a payload transition may carry in `from` and `to`.
EndpointNames == { "A", "B", "Screen 0" }

SeqsUpTo(S, n) == UNION { [1..k -> S] : k \in 0..n }

Payloads ==
  [ screens : SeqsUpTo([name : PayloadNames], MaxScreens),
    transitions : SeqsUpTo([from : EndpointNames, to : EndpointNames], MaxTrans) ]

\* What the generation service does on one call.
\*   no_service    createAIService throws (no API key, unsupported provider)
\*   text_rejects  generateText rejects (network, auth, timeout)
\*   not_json      the cleaned response is not JSON: JSON.parse throws
\*   json_null     the response decodes to null: reading parsed.screens throws
\*   json          the response decodes to an object with the given arrays
Outcomes ==
  [ kind : {"no_service", "text_rejects", "not_json", "json_null"},
    parsed : { [screens |-> << >>, transitions |-> << >>] } ]
  \cup [ kind : {"json"}, parsed : Payloads ]

\* Values of Date.now() at the moment an Architecture is built.
Times == { 1, 2 }

\* ------------------------------------------------------- ensureConnectedFlow
RECURSIVE chainUnconnected(_, _, _)
\* The forEach over unconnectedScreens: one synthetic transition per screen
\* that differs from previousScreenId, which then becomes that screen.
chainUnconnected(unconnected, transitions, previousScreenId) ==
  IF unconnected = << >> THEN transitions
  ELSE LET screen == Head(unconnected)
           pushed == IF previousScreenId # screen.id
                     THEN Append(transitions,
                                 [ id |-> FallbackTransitionId(Len(transitions)),
                                   from |-> previousScreenId, to |-> screen.id ])
                     ELSE transitions
       IN chainUnconnected(Tail(unconnected), pushed, screen.id)

ensureConnectedFlow(screens, existingTransitions) ==
  LET connectedScreenIds ==
        { existingTransitions[i].from : i \in 1..Len(existingTransitions) }
        \cup { existingTransitions[i].to : i \in 1..Len(existingTransitions) }
      unconnectedScreens ==
        SelectSeq(screens, LAMBDA s : s.id \notin connectedScreenIds)
      connected == SelectSeq(screens, LAMBDA s : s.id \in connectedScreenIds)
      previousScreenId ==
        IF connected # << >> THEN connected[1].id ELSE screens[1].id
  IN IF Len(unconnectedScreens) > 0
     THEN chainUnconnected(unconnectedScreens, existingTransitions, previousScreenId)
     ELSE existingTransitions

\* ---------------------------------------- validateAndNormalizeArchitecture
\* The keys of typeMap (the values of the ScreenType enum).
ScreenTypes ==
  { "auth", "onboarding", "verification", "dashboard", "home", "list", "grid",
    "detail", "form", "search", "filter", "profile", "settings", "preferences",
    "account", "chat", "notifications", "feed", "cart", "checkout", "payment",
    "order_history", "gallery", "camera", "media_viewer", "tab_bar", "drawer",
    "modal", "bottom_sheet", "error", "loading", "empty_state", "tutorial",
    "help", "map", "calendar", "analytics", "reports" }

\* typeMap[type?.toLowerCase()] || ScreenType.HOME, on a lower-case type
normalizeScreenType(type) == IF type \in ScreenTypes THEN type ELSE "home"

\* screen.type of a payload screen; a missing field reads as undefined, which
\* is no key of typeMap.
PayloadType(screen) == IF "type" \in DOMAIN screen THEN screen.type ELSE "undefined"

\* screens: id by position, name defaulted when falsy, type normalized (a
\* payload screen without `type` normalizes to 'home').
normalizeScreens(parsed) ==
  [ i \in 1..Len(parsed.screens) |->
      [ id |-> ScreenId(i - 1),
        name |-> IF parsed.screens[i].name = NoName
                 THEN DefaultName(i - 1) ELSE parsed.screens[i].name,
        type |-> normalizeScreenType(PayloadType(parsed.screens[i])) ] ]

\* The lookup as the earlier copy of the normalizer does it: an endpoint that
\* is not found falls back to the first (from) or second (to) screen.
normalizeTransition_Defaulting(screens, transition, index) ==
  LET fromScreen == FindByName(screens, transition.from)
      toScreen == FindByName(screens, transition.to)
  IN [ keep |-> TRUE, id |-> TransitionId(index),
       from |-> IF fromScreen # 0 THEN screens[fromScreen].id
                ELSE IF Len(screens) >= 1 THEN screens[1].id ELSE ScreenId(0),
       to |-> IF toScreen # 0 THEN screens[toScreen].id
              ELSE IF Len(screens) >= 2 THEN screens[2].id ELSE ScreenId(1) ]

\* One payload transition after the name lookup: null (a record with
\* keep = FALSE) when either endpoint is not found.
normalizeTransition(screens, transition, index) ==
  LET fromScreen == FindByName(screens, transition.from)
      toScreen == FindByName(screens, transition.to)
  IN IF fromScreen = 0 \/ toScreen = 0
     THEN [ keep |-> FALSE, id |-> TransitionId(index), from |-> "", to |-> "" ]
     ELSE [ keep |-> TRUE, id |-> TransitionId(index),
            from |-> screens[fromScreen].id, to |-> screens[toScreen].id ]

\* .map(...).filter(Boolean)
normalizeTransitions(screens, parsed) ==
  LET mapped == [ i \in 1..Len(parsed.transitions) |->
                    normalizeTransition(screens, parsed.transitions[i], i - 1) ]
      kept == SelectSeq(mapped, LAMBDA m : m.keep)
  IN [ i \in 1..Len(kept) |->
         [ id |-> kept[i].id, from |-> kept[i].from, to |-> kept[i].to ] ]

validateAndNormalizeArchitecture(parsed, t) ==
  LET screens == normalizeScreens(parsed)
      transitions == normalizeTransitions(screens, parsed)
  IN [ id |-> t,
       name |-> "Generated App",
       screens |-> screens,
       transitions |-> IF Len(transitions) < Len(screens) - 1
                       THEN ensureConnectedFlow(screens, transitions)
                       ELSE transitions ]

\* --------------------------------------------------------- generateWithAI
\* A completed call: ok = FALSE means the promise rejected (value unused).
Rejected == [ ok |-> FALSE, value |-> [ id |-> 0, name |-> "", screens |-> << >>, transitions |-> << >> ] ]

Resolved(a) == [ ok |-> TRUE, value |-> a ]

generateWithAI(outcome, t) ==
  IF outcome.kind = "text_rejects" THEN Rejected
  ELSE IF outcome.kind \in {"not_json", "json_null"} THEN Rejected
  ELSE Resolved(validateAndNormalizeArchitecture(outcome.parsed, t))

\* generateArchitecture without its try/catch: a failure reaches the caller.
generateArchitecture_NoCatch(goal, outcome, t) ==
  IF outcome.kind = "no_service" THEN Rejected
  ELSE generateWithAI(outcome, t)

\* ------------------------------------------------------ generateArchitecture
generateArchitecture(goal, outcome, t) ==
  IF outcome.kind = "no_service"
  THEN Resolved(generateMockArchitecture(goal, t))
  ELSE LET aiResponse == generateWithAI(outcome, t)
       IN IF aiResponse.ok THEN aiResponse
          ELSE Resolved(generateMockArchitecture(goal, t))

\* ======================================================== diagram editor
\* ------------------------------------------------------------------ bounds
\* Edits (handler runs that change the diagram or record a snapshot) one
\* session of the whole editor is followed through.
MaxEdits == 1
\* Edits one session of the history handlers alone is followed through; it
\* caps history.length as well.
MaxHistory == 3

\* ------------------------------------------------------------- coordinates
\* Coordinates are exact rationals num/den in lowest terms, den > 0.
RECURSIVE GCD(_, _)
GCD(a, b) == IF b = 0 THEN a ELSE GCD(b, a % b)

Abs(n) == IF n < 0 THEN -n ELSE n

Rat(n, d) ==
  LET g == GCD(Abs(n), d) IN [ num |-> n \div g, den |-> d \div g ]

Num(n) == [ num |-> n, den |-> 1 ]

RLess(a, b) == a.num * b.den < b.num * a.den

RAdd(a, b) == Rat(a.num * b.den + b.num * a.den, a.den * b.den)

RSub(a, b) == Rat(a.num * b.den - b.num * a.den, a.den * b.den)

RMulInt(a, k) == Rat(a.num * k, a.den)

RDivInt(a, k) == Rat(a.num, a.den * k)

\* Math.min(...values), Math.max(...values) of a non-empty set of values
MathMin(S) == CHOOSE a \in S : \A b \in S : ~RLess(b, a)

MathMax(S) == CHOOSE a \in S : \A b \in S : ~RLess(a, b)

Pos(x, y) == [ x |-> Num(x), y |-> Num(y) ]

\* ------------------------------------------------------------ string tables
NodeIds == << "node_1000", "node_1001", "node_1002", "node_1003", "node_1004" >>

\* `node_${nodeIdCounter.current++}`
NodeId(counter) == NodeIds[counter - 999]

EdgeIds == << "edge_1", "edge_2", "edge_3", "edge_4", "edge_5", "edge_6" >>

\* `edge_${Date.now()}`
EdgeId(now) == EdgeIds[now]

\* --------------------------------------------------------- architectureToFlow
STEP_SPACING == 500

BRANCH_SPACING == 300

BASE_Y == 250

\* Screen names with name.toLowerCase().includes('login')
LoginNames == { "Login" }

\* Array.prototype.find on the `id` field: index of the first match, 0 if none.
FindById(screens, id) ==
  IF \E i \in 1..Len(screens) : screens[i].id = id
  THEN CHOOSE i \in 1..Len(screens) :
         /\ screens[i].id = id
         /\ \A j \in 1..(i - 1) : screens[j].id # id
  ELSE 0

\* The essentialTransitions filter letting the return from a detail screen
\* to the list through as well.
ForwardPairs_WithReturn ==
  { << "loading", "auth" >>, << "auth", "onboarding" >>, << "auth", "dashboard" >>,
    << "onboarding", "dashboard" >>, << "dashboard", "list" >>, << "home", "list" >>,
    << "list", "detail" >>, << "list", "form" >>, << "detail", "list" >> }

\* The (source type, target type) pairs of the essentialTransitions filter.
ForwardPairs ==
  { << "loading", "auth" >>, << "auth", "onboarding" >>, << "auth", "dashboard" >>,
    << "onboarding", "dashboard" >>, << "dashboard", "list" >>, << "home", "list" >>,
    << "list", "detail" >>, << "list", "form" >> }

\* The label chosen for the edge of an essential transition.
EdgeLabel(sourceScreen, targetScreen) ==
  LET pair == << sourceScreen.type, targetScreen.type >>
  IN IF pair = << "loading", "auth" >>
     THEN (IF targetScreen.name \in LoginNames THEN "Login" ELSE "Sign Up")
     ELSE IF pair = << "auth", "onboarding" >> THEN "Get Started"
     ELSE IF pair = << "auth", "dashboard" >> THEN "Continue"
     ELSE IF pair = << "onboarding", "dashboard" >> THEN "Enter App"
     ELSE IF pair \in { << "dashboard", "list" >>, << "home", "list" >> } THEN "View Items"
     ELSE IF pair = << "list", "detail" >> THEN "View Details"
     ELSE IF pair = << "list", "form" >> THEN "Add New"
     ELSE "Continue"

RECURSIVE PushNew(_, _)
\* The candidate edges pushed in order, each unless addedEdges has its id.
PushNew(pushed, candidates) ==
  IF candidates = << >> THEN pushed
  ELSE PushNew(IF Head(candidates).id \in { pushed[i].id : i \in 1..Len(pushed) }
               THEN pushed ELSE Append(pushed, Head(candidates)),
               Tail(candidates))

\* flowPositions[id] after the assignments made in order (a later assignment
\* to the same key replaces an earlier one), or the default position.
Lookup(assignments, id, default) ==
  LET hits == { k \in 1..Len(assignments) : assignments[k].id = id }
  IN IF hits = {} THEN default
     ELSE assignments[CHOOSE k \in hits : \A h \in hits : h <= k].position

\* StageX without the advance after the auth stage: the next populated stage
\* starts at the x of the auth screens.
StageX_NoAuthStep(hasLaunch, hasAuth, hasOnboarding, hasDashboard, hasList) ==
  LET xLaunch == 400
      xAuth == xLaunch + (IF hasLaunch THEN STEP_SPACING ELSE 0)
      xOnboarding == xAuth
      xDashboard == xOnboarding + (IF hasOnboarding THEN STEP_SPACING ELSE 0)
      xList == xDashboard + (IF hasDashboard THEN STEP_SPACING ELSE 0)
  IN [ launch |-> xLaunch, auth |-> xAuth, onboarding |-> xOnboarding,
       dashboard |-> xDashboard, list |-> xList,
       currentX |-> xList + (IF hasList THEN STEP_SPACING ELSE 0) ]

\* currentX as each step of the main flow finds it, and as the last leaves it:
\* it starts at 400 and advances by STEP_SPACING after each populated stage.
StageX(hasLaunch, hasAuth, hasOnboarding, hasDashboard, hasList) ==
  LET xLaunch == 400
      xAuth == xLaunch + (IF hasLaunch THEN STEP_SPACING ELSE 0)
      xOnboarding == xAuth + (IF hasAuth THEN STEP_SPACING ELSE 0)
      xDashboard == xOnboarding + (IF hasOnboarding THEN STEP_SPACING ELSE 0)
      xList == xDashboard + (IF hasDashboard THEN STEP_SPACING ELSE 0)
  IN [ launch |-> xLaunch, auth |-> xAuth, onboarding |-> xOnboarding,
       dashboard |-> xDashboard, list |-> xList,
       currentX |-> xList + (IF hasList THEN STEP_SPACING ELSE 0) ]

architectureToFlow(a) ==
  LET screens == a.screens
      launchScreen == FindByType(screens, {"loading"})
      authScreens == SelectSeq(screens, LAMBDA s : s.type = "auth")
      onboardingScreen == FindByType(screens, {"onboarding"})
      dashboardScreen == FindByType(screens, {"dashboard", "home"})
      listScreen == FindByType(screens, {"list", "grid"})
      detailScreen == FindByType(screens, {"detail"})
      formScreen == FindByType(screens, {"form"})
      profileScreen == FindByType(screens, {"profile"})
      settingsScreen == FindByType(screens, {"settings"})
      stage == StageX(launchScreen # 0, Len(authScreens) > 0, onboardingScreen # 0,
                      dashboardScreen # 0, listScreen # 0)
      xLaunch == stage.launch
      xAuth == stage.auth
      xOnboarding == stage.onboarding
      xDashboard == stage.dashboard
      xList == stage.list
      currentX == stage.currentX
      subFlowY == BASE_Y + BRANCH_SPACING
      subFlowX == currentX - STEP_SPACING
      one(i, position) ==
        IF i # 0 THEN << [ id |-> screens[i].id, position |-> position ] >> ELSE << >>
      \* BASE_Y + (index - (authScreens.length - 1) / 2) * BRANCH_SPACING
      branchY(index) ==
        RAdd(Num(BASE_Y),
             RMulInt(Rat(2 * index - (Len(authScreens) - 1), 2), BRANCH_SPACING))
      assignments ==
        one(launchScreen, Pos(xLaunch, BASE_Y))
        \o [ i \in 1..Len(authScreens) |->
               [ id |-> authScreens[i].id,
                 position |-> [ x |-> Num(xAuth), y |-> branchY(i - 1) ] ] ]
        \o one(onboardingScreen, Pos(xOnboarding, BASE_Y))
        \o one(dashboardScreen, Pos(xDashboard, BASE_Y))
        \o one(listScreen, Pos(xList, BASE_Y))
        \o one(detailScreen, Pos(subFlowX, subFlowY))
        \o one(formScreen,
               Pos(subFlowX + (IF detailScreen # 0 THEN STEP_SPACING ELSE 0), subFlowY))
        \o one(profileScreen, Pos(currentX, BASE_Y))
        \o one(settingsScreen,
               Pos(currentX + (IF profileScreen # 0 THEN STEP_SPACING ELSE 0), BASE_Y))
      nodes ==
        << [ id |-> "start", type |-> "start",
             position |-> Pos(100, 250), label |-> "Start" ] >>
        \o [ i \in 1..Len(screens) |->
               [ id |-> screens[i].id, type |-> "screen",
                 position |-> Lookup(assignments, screens[i].id, Pos(currentX, BASE_Y)),
                 label |-> screens[i].name ] ]
      edge(from, to, label) ==
        [ id |-> from \o "-to-" \o to, source |-> from, target |-> to, label |-> label ]
      \* launchScreen || authScreens[0] || onboardingScreen || dashboardScreen || screens[0]
      firstScreen ==
        IF launchScreen # 0 THEN << screens[launchScreen] >>
        ELSE IF Len(authScreens) > 0 THEN << authScreens[1] >>
        ELSE IF onboardingScreen # 0 THEN << screens[onboardingScreen] >>
        ELSE IF dashboardScreen # 0 THEN << screens[dashboardScreen] >>
        ELSE IF Len(screens) > 0 THEN << screens[1] >>
        ELSE << >>
      startEdges ==
        [ i \in 1..Len(firstScreen) |-> edge("start", firstScreen[i].id, "App Launch") ]
      essentialTransitions ==
        SelectSeq(a.transitions, LAMBDA t :
          /\ FindById(screens, t.from) # 0
          /\ FindById(screens, t.to) # 0
          /\ << screens[FindById(screens, t.from)].type,
                screens[FindById(screens, t.to)].type >> \in ForwardPairs)
      essentialEdges ==
        [ i \in 1..Len(essentialTransitions) |->
            LET t == essentialTransitions[i]
            IN edge(t.from, t.to, EdgeLabel(screens[FindById(screens, t.from)],
                                            screens[FindById(screens, t.to)])) ]
      launchToAuth ==
        IF launchScreen # 0
        THEN [ i \in 1..Len(authScreens) |->
                 edge(screens[launchScreen].id, authScreens[i].id,
                      IF authScreens[i].name \in LoginNames THEN "Login" ELSE "Sign Up") ]
        ELSE << >>
      launchToOnboarding ==
        IF launchScreen # 0 /\ onboardingScreen # 0 /\ Len(authScreens) = 0
        THEN << edge(screens[launchScreen].id, screens[onboardingScreen].id, "Get Started") >>
        ELSE << >>
      authToDashboard ==
        IF dashboardScreen # 0
        THEN [ i \in 1..Len(authScreens) |->
                 edge(authScreens[i].id, screens[dashboardScreen].id, "Continue") ]
        ELSE << >>
      dashboardToList ==
        IF dashboardScreen # 0 /\ listScreen # 0
        THEN << edge(screens[dashboardScreen].id, screens[listScreen].id, "View Items") >>
        ELSE << >>
  IN [ nodes |-> nodes,
       edges |-> PushNew(<< >>, startEdges \o essentialEdges \o launchToAuth
                                \o launchToOnboarding \o authToDashboard
                                \o dashboardToList) ]

\* ------------------------------------------------------------ initial flows
\* architectureToFlow of an Architecture whose only screen is a home screen:
\* the start node, the screen at the first stage, and the App Launch edge.
HomeFlow ==
  [ nodes |-> << [ id |-> "start", type |-> "start",
                   position |-> Pos(100, 250), label |-> "Start" ],
                 [ id |-> "screen_0", type |-> "screen",
                   position |-> Pos(400, 250), label |-> "Home" ] >>,
    edges |-> << [ id |-> "start-to-screen_0", source |-> "start",
                   target |-> "screen_0", label |-> "App Launch" ] >> ]

\* architectureToFlow of an Architecture with a dashboard screen and a list
\* screen: the list stage lies one STEP_SPACING to the right, and the
\* dashboard-to-list edge is labelled View Items.
DashboardListFlow ==
  [ nodes |-> << [ id |-> "start", type |-> "start",
                   position |-> Pos(100, 250), label |-> "Start" ],
                 [ id |-> "screen_0", type |-> "screen",
                   position |-> Pos(400, 250), label |-> "Dashboard" ],
                 [ id |-> "screen_1", type |-> "screen",
                   position |-> Pos(900, 250), label |-> "Items" ] >>,
    edges |-> << [ id |-> "start-to-screen_0", source |-> "start",
                   target |-> "screen_0", label |-> "App Launch" ],
                 [ id |-> "screen_0-to-screen_1", source |-> "screen_0",
                   target |-> "screen_1", label |-> "View Items" ] >> ]

InitialFlows == { HomeFlow, DashboardListFlow }

EmptyFlow == [ nodes |-> << >>, edges |-> << >> ]

\* Positions a drag can drop a node at (multiples of the 20px snap grid).
DropPositions == { Pos(100, 560) }

\* The template chosen in NodeCreationPanel, and where it puts the node.
Templates == { [ type |-> "screen", label |-> "Login Screen" ] }

CreatePosition == Pos(400, 300)

\* Labels typed into NodeEditDialog.
EditLabels == { "Renamed" }

\* ------------------------------------------------------------------- state
\* One call of generateArchitecture at a time.
VARIABLES
  gpc,        \* "idle", "awaiting" (generateText outstanding), "settled"
  goal,       \* the goal of the current generateArchitecture call
  outcome,    \* what the service did on this call
  settled     \* the completed promise of generateArchitecture

gvars == << gpc, goal, outcome, settled >>

\* The diagram editor (FlowDiagramInner).
VARIABLES
  mounted,        \* FlowDiagramInner is mounted
  flow,           \* prop: the flow the editor was mounted with
  editable,       \* prop
  nodes,          \* useNodesState
  edges,          \* useEdgesState
  selectedTool,   \* 'select' | 'pan'
  selectedNodes,  \* ids, as last reported by onSelectionChange
  selectedEdges,
  history,        \* array of { nodes, edges }
  historyIndex,   \* 0-based index into history, -1 when empty
  nodeIdCounter,  \* useRef(1000)
  now,            \* Date.now() as read by the last onConnect
  toolbarClosure, \* the state the memoized handleToolbarAction closes over
  budget,         \* edits this session is still followed through
  script,         \* observer: progress through mutations, undos, redos
  lastRun         \* observer: the handler that last moved historyIndex

evars == << mounted, flow, editable, nodes, edges, selectedTool, selectedNodes,
            selectedEdges, history, historyIndex, nodeIdCounter, now,
            toolbarClosure >>

ovars == << budget, script, lastRun >>

\* The studio page (AppStudio) that owns the architecture and renders the editor.
\* A state that is null or a value is a sequence of length 0 or 1.
VARIABLES
  activeTool,     \* 'home' | 'flow-diagrams'
  isProjectMode,
  isGenerating,
  architecture,   \* << >> (null) or << the Architecture >>
  studioFlow,     \* AppStudio's flow state: << >> (null) or << the flow >>
  calls           \* the handleGenerate runs started so far, in order

svars == << activeTool, isProjectMode, isGenerating, architecture, studioFlow, calls >>

vars == << gvars, evars, ovars, svars >>

\* The editor state a handler closes over.
Ed ==
  [ editable |-> editable, nodes |-> nodes, edges |-> edges,
    selectedTool |-> selectedTool,
    selectedNodes |-> selectedNodes, selectedEdges |-> selectedEdges,
    history |-> history, historyIndex |-> historyIndex,
    nodeIdCounter |-> nodeIdCounter, now |-> now ]

IdsOf(seq) == { seq[i].id : i \in 1..Len(seq) }

\* What the handlers made in one render close over: the state of that render.
Captured(ns, es, sn, se, h, hi) ==
  [ nodes |-> ns, edges |-> es, selectedNodes |-> sn, selectedEdges |-> se,
    history |-> h, historyIndex |-> hi ]

Diagram(s) == [ nodes |-> s.nodes, edges |-> s.edges ]

\* ---------------------------------------------------------------- handlers
saveToHistory(s) ==
  LET newHistory == Append(SubSeq(s.history, 1, s.historyIndex + 1),
                           [ nodes |-> s.nodes, edges |-> s.edges ])
  IN [ s EXCEPT !.history = newHistory, !.historyIndex = Len(newHistory) - 1 ]

\* reactflow addEdge: the edges unchanged when one with the same source and
\* target already exists, else the new edge appended.
addEdge(newEdge, es) ==
  IF \E i \in 1..Len(es) :
       es[i].source = newEdge.source /\ es[i].target = newEdge.target
  THEN es
  ELSE Append(es, newEdge)

\* onConnect(params) at time t
onConnect(s, source, target, t) ==
  IF ~s.editable \/ s.selectedTool # "select" THEN s
  ELSE LET newEdge == [ id |-> EdgeId(t), source |-> source,
                        target |-> target, label |-> "Action" ]
           saved == saveToHistory(s)
       IN [ saved EXCEPT !.edges = addEdge(newEdge, s.edges), !.now = t ]

onSelectionChange(s, nodeIds, edgeIds) ==
  [ s EXCEPT !.selectedNodes = nodeIds, !.selectedEdges = edgeIds ]

setSelectedTool(s, tool) == [ s EXCEPT !.selectedTool = tool ]

handleDeleteSelected(s) ==
  IF s.selectedNodes = {} /\ s.selectedEdges = {} THEN s
  ELSE LET saved == saveToHistory(s)
           afterNodes ==
             IF s.selectedNodes # {}
             THEN [ nodes |-> SelectSeq(s.nodes, LAMBDA n : n.id \notin s.selectedNodes),
                    edges |-> SelectSeq(s.edges, LAMBDA e :
                                 e.source \notin s.selectedNodes
                                 /\ e.target \notin s.selectedNodes) ]
             ELSE Diagram(s)
           afterEdges ==
             IF s.selectedEdges # {}
             THEN SelectSeq(afterNodes.edges, LAMBDA e : e.id \notin s.selectedEdges)
             ELSE afterNodes.edges
       IN [ saved EXCEPT !.nodes = afterNodes.nodes, !.edges = afterEdges,
                         !.selectedNodes = {}, !.selectedEdges = {} ]

handleUndo(s) ==
  IF s.historyIndex <= 0 THEN s
  ELSE LET prevState == s.history[(s.historyIndex - 1) + 1]
       IN [ s EXCEPT !.nodes = prevState.nodes, !.edges = prevState.edges,
                     !.historyIndex = s.historyIndex - 1 ]

handleRedo(s) ==
  IF s.historyIndex >= Len(s.history) - 1 THEN s
  ELSE LET nextState == s.history[(s.historyIndex + 1) + 1]
       IN [ s EXCEPT !.nodes = nextState.nodes, !.edges = nextState.edges,
                     !.historyIndex = s.historyIndex + 1 ]

\* handleNodesChange recording a snapshot before it applies the change.
handleNodesChange_Saving(s, nodeId, position) ==
  LET saved == saveToHistory(s)
  IN [ saved EXCEPT !.nodes = [ i \in 1..Len(s.nodes) |->
                                  IF s.nodes[i].id = nodeId
                                  THEN [ s.nodes[i] EXCEPT !.position = position ]
                                  ELSE s.nodes[i] ] ]

\* handleNodesChange with a position change of one node (a drag)
handleNodesChange(s, nodeId, position) ==
  [ s EXCEPT !.nodes = [ i \in 1..Len(s.nodes) |->
                           IF s.nodes[i].id = nodeId
                           THEN [ s.nodes[i] EXCEPT !.position = position ]
                           ELSE s.nodes[i] ] ]

handleCreateNode(s, template, position) ==
  LET newNode == [ id |-> NodeId(s.nodeIdCounter), type |-> template.type,
                   position |-> position, label |-> template.label ]
      saved == saveToHistory(s)
  IN [ saved EXCEPT !.nodes = Append(s.nodes, newNode),
                    !.nodeIdCounter = s.nodeIdCounter + 1 ]

handleEditNode(s, nodeId, label) ==
  LET saved == saveToHistory(s)
  IN [ saved EXCEPT !.nodes = [ i \in 1..Len(s.nodes) |->
                                  IF s.nodes[i].id = nodeId
                                  THEN [ s.nodes[i] EXCEPT !.label = label ]
                                  ELSE s.nodes[i] ] ]

handleDeleteEdge(s, edgeId) ==
  LET saved == saveToHistory(s)
  IN [ saved EXCEPT !.edges = SelectSeq(s.edges, LAMBDA e : e.id # edgeId) ]

\* handleAlignNodes with the centre written as minX + maxX / 2.
handleAlignNodes_CenterPrecedence(s, direction) ==
  LET selectedNodesList == SelectSeq(s.nodes, LAMBDA n : n.id \in s.selectedNodes)
      xs == { selectedNodesList[i].position.x : i \in 1..Len(selectedNodesList) }
      alignX == IF direction = "left" THEN MathMin(xs)
                ELSE IF direction = "right" THEN MathMax(xs)
                ELSE RAdd(MathMin(xs), RDivInt(MathMax(xs), 2))
      saved == saveToHistory(s)
  IN IF Len(selectedNodesList) < 2 THEN s
     ELSE [ saved EXCEPT !.nodes = [ i \in 1..Len(s.nodes) |->
                                       IF s.nodes[i].id \in s.selectedNodes
                                       THEN [ s.nodes[i] EXCEPT !.position.x = alignX ]
                                       ELSE s.nodes[i] ] ]

handleAlignNodes(s, direction) ==
  LET selectedNodesList == SelectSeq(s.nodes, LAMBDA n : n.id \in s.selectedNodes)
      xs == { selectedNodesList[i].position.x : i \in 1..Len(selectedNodesList) }
      alignX == IF direction = "left" THEN MathMin(xs)
                ELSE IF direction = "right" THEN MathMax(xs)
                ELSE RDivInt(RAdd(MathMin(xs), MathMax(xs)), 2)
      saved == saveToHistory(s)
  IN IF Len(selectedNodesList) < 2 THEN s
     ELSE [ saved EXCEPT !.nodes = [ i \in 1..Len(s.nodes) |->
                                       IF s.nodes[i].id \in s.selectedNodes
                                       THEN [ s.nodes[i] EXCEPT !.position.x = alignX ]
                                       ELSE s.nodes[i] ] ]

\* The coordinate a distribute direction works on.
Coord(node, direction) ==
  IF direction = "horizontal" THEN node.position.x ELSE node.position.y

RECURSIVE InsertSorted(_, _, _)
\* Insert node n after every element that does not compare greater (stable).
InsertSorted(sorted, n, direction) ==
  IF sorted = << >> THEN << n >>
  ELSE IF RLess(Coord(n, direction), Coord(Head(sorted), direction))
       THEN << n >> \o sorted
       ELSE << Head(sorted) >> \o InsertSorted(Tail(sorted), n, direction)

RECURSIVE SortNodes(_, _)
\* Array.prototype.sort with the coordinate comparator (a stable sort).
SortNodes(list, direction) ==
  IF list = << >> THEN << >>
  ELSE InsertSorted(SortNodes(SubSeq(list, 1, Len(list) - 1), direction),
                    list[Len(list)], direction)

\* findIndex(n => n.id === id), 0-based, -1 when absent
FindIndex(list, id) ==
  IF \E i \in 1..Len(list) : list[i].id = id
  THEN (CHOOSE i \in 1..Len(list) :
          list[i].id = id /\ \A j \in 1..(i - 1) : list[j].id # id) - 1
  ELSE -1

\* handleDistributeNodes with the step taken as totalDistance / length.
handleDistributeNodes_StepByLength(s, direction) ==
  LET selectedNodesList == SelectSeq(s.nodes, LAMBDA n : n.id \in s.selectedNodes)
      sorted == SortNodes(selectedNodesList, direction)
      first == sorted[1]
      last == sorted[Len(sorted)]
      totalDistance == RSub(Coord(last, direction), Coord(first, direction))
      step == RDivInt(totalDistance, Len(sorted))
      place(node) ==
        LET index == FindIndex(sorted, node.id)
            moved == RAdd(Coord(first, direction), RMulInt(step, index))
        IN IF index = -1 THEN node
           ELSE IF direction = "horizontal"
                THEN [ node EXCEPT !.position.x = moved ]
                ELSE [ node EXCEPT !.position.y = moved ]
      saved == saveToHistory(s)
  IN IF Len(selectedNodesList) < 3 THEN s
     ELSE [ saved EXCEPT !.nodes = [ i \in 1..Len(s.nodes) |-> place(s.nodes[i]) ] ]

handleDistributeNodes(s, direction) ==
  LET selectedNodesList == SelectSeq(s.nodes, LAMBDA n : n.id \in s.selectedNodes)
      sorted == SortNodes(selectedNodesList, direction)
      first == sorted[1]
      last == sorted[Len(sorted)]
      totalDistance == RSub(Coord(last, direction), Coord(first, direction))
      step == RDivInt(totalDistance, Len(sorted) - 1)
      place(node) ==
        LET index == FindIndex(sorted, node.id)
            moved == RAdd(Coord(first, direction), RMulInt(step, index))
        IN IF index = -1 THEN node
           ELSE IF direction = "horizontal"
                THEN [ node EXCEPT !.position.x = moved ]
                ELSE [ node EXCEPT !.position.y = moved ]
      saved == saveToHistory(s)
  IN IF Len(selectedNodesList) < 3 THEN s
     ELSE [ saved EXCEPT !.nodes = [ i \in 1..Len(s.nodes) |-> place(s.nodes[i]) ] ]

\* NodeContextMenu onDelete removing the node and leaving the edges as they are.
contextMenuDelete_NodeOnly(s, nodeId) ==
  LET saved == saveToHistory(s)
  IN [ saved EXCEPT !.nodes = SelectSeq(s.nodes, LAMBDA n : n.id # nodeId) ]

\* NodeContextMenu onDelete(nodeId)
contextMenuDelete(s, nodeId) ==
  LET saved == saveToHistory(s)
  IN [ saved EXCEPT !.nodes = SelectSeq(s.nodes, LAMBDA n : n.id # nodeId),
                    !.edges = SelectSeq(s.edges, LAMBDA e :
                                 e.source # nodeId /\ e.target # nodeId) ]

\* NodeContextMenu onDuplicate(nodeId)
contextMenuDuplicate(s, nodeId) ==
  LET i == FindIndex(s.nodes, nodeId) + 1
      node == s.nodes[i]
      newNode == [ node EXCEPT !.id = NodeId(s.nodeIdCounter),
                               !.position = [ x |-> RAdd(node.position.x, Num(50)),
                                              y |-> RAdd(node.position.y, Num(50)) ] ]
      saved == saveToHistory(s)
  IN IF i = 0 THEN s
     ELSE [ saved EXCEPT !.nodes = Append(s.nodes, newNode),
                         !.nodeIdCounter = s.nodeIdCounter + 1 ]

\* handleToolbarAction({ type: action }) for 'delete', 'undo' and 'redo'.  The
\* callback is memoized on [reactFlowInstance, showGrid, showMinimap], so the
\* handleDeleteSelected, handleUndo and handleRedo it calls are those of the
\* render it was made in, closing over the state c of that render: a setter
\* called with a value writes what was computed from c, a setter called with
\* an updater function works on the current state s.
handleToolbarAction(s, c, action) ==
  IF action = "delete"
  THEN IF c.selectedNodes = {} /\ c.selectedEdges = {} THEN s
       ELSE LET saved == saveToHistory(c)
                removed == handleDeleteSelected(
                             [ s EXCEPT !.selectedNodes = c.selectedNodes,
                                        !.selectedEdges = c.selectedEdges ])
            IN [ removed EXCEPT !.history = saved.history,
                                !.historyIndex = saved.historyIndex ]
  ELSE IF action = "undo"
  THEN IF c.historyIndex <= 0 THEN s
       ELSE [ s EXCEPT !.nodes = handleUndo(c).nodes,
                       !.edges = handleUndo(c).edges,
                       !.historyIndex = handleUndo(c).historyIndex ]
  ELSE IF action = "redo"
  THEN IF c.historyIndex >= Len(c.history) - 1 THEN s
       ELSE [ s EXCEPT !.nodes = handleRedo(c).nodes,
                       !.edges = handleRedo(c).edges,
                       !.historyIndex = handleRedo(c).historyIndex ]
  ELSE s

\* --------------------------------------------------------------- observers
\* The handlers that call saveToHistory.
Mutations ==
  { "onConnect", "handleDeleteSelected", "handleCreateNode", "handleEditNode",
    "handleDeleteEdge", "handleAlignNodes", "handleDistributeNodes",
    "contextMenuDelete", "contextMenuDuplicate" }

ScriptOff == [ phase |-> "off", u |-> 0, r |-> 0, after |-> EmptyFlow ]

ScriptStart == [ phase |-> "mut", u |-> 0, r |-> 0, after |-> EmptyFlow ]

\* script follows, from the mount on, a run of recorded mutations (phase
\* "mut"; there are Len(history) of them), then the undo calls that come
\* right after it (phase "undo", u calls so far, at most as many as there
\* were mutations), then as many redo calls (phase "redo", r calls so far).
\* after is the diagram right after the last mutation of the run.  An undo
\* or a redo before the first mutation, and a redo before the first undo,
\* does nothing and is not counted; anything else that touches the diagram
\* switches the script off.
NextScript(op, s, r) ==
  IF op \in Mutations
  THEN IF r.historyIndex = s.historyIndex THEN script
       ELSE IF script.phase = "mut" THEN script ELSE ScriptOff
  ELSE IF script.phase = "mut" /\ op \in {"handleUndo", "handleRedo"}
                               /\ (op = "handleRedo" \/ Len(s.history) = 0)
  THEN script
  ELSE IF op = "handleUndo"
  THEN IF script.phase = "mut"
       THEN [ phase |-> "undo", u |-> 1, r |-> 0, after |-> Diagram(s) ]
       ELSE IF script.phase = "undo" /\ script.u < Len(s.history)
            THEN [ script EXCEPT !.u = script.u + 1 ]
            ELSE ScriptOff
  ELSE IF op = "handleRedo"
  THEN IF /\ script.phase \in {"undo", "redo"}
          /\ script.u = Len(s.history)
          /\ script.r < Len(s.history)
       THEN [ script EXCEPT !.phase = "redo", !.r = script.r + 1 ]
       ELSE ScriptOff
  ELSE IF op = "handleNodesChange" THEN ScriptOff
  ELSE script

LastNone == [ op |-> "none", cut |-> FALSE, at |-> -1 ]

\* lastRun names the handler that moved historyIndex most recently, with
\* cut: it recorded while snapshots lay beyond historyIndex, and
\* at: the historyIndex it left.  An undo called right after a deleteSelected
\* that deleted is named "deleteUndo" and keeps the at of that delete.
NextLast(op, s, r) ==
  IF op = "handleUndo" /\ lastRun.op = "handleDeleteSelected"
  THEN [ op |-> "deleteUndo", cut |-> FALSE, at |-> lastRun.at ]
  ELSE IF op = "handleNodesChange" THEN LastNone
  ELSE IF r.historyIndex = s.historyIndex THEN lastRun
  ELSE [ op |-> op,
         cut |-> op \in Mutations /\ s.historyIndex < Len(s.history) - 1,
         at |-> r.historyIndex ]

\* The run of handler op from s to r is an edit: a drag, or a snapshot pushed.
IsEdit(op, s, r) ==
  \/ op = "handleNodesChange"
  \/ op \in Mutations /\ r.historyIndex # s.historyIndex

\* The flow a handler run hands to the parent's onFlowChange, << >> when the
\* run makes no such call: onConnect passes the nodes with the new edges,
\* handleCreateNode the nodes with the new node, and handleNodesChange, from a
\* zero-delay timer, the nodes and edges its closure holds (those before the
\* change); the other handlers do not call it.
onFlowChange(op, s, r) ==
  IF op = "onConnect" /\ r.historyIndex # s.historyIndex
  THEN << [ nodes |-> s.nodes, edges |-> r.edges ] >>
  ELSE IF op = "handleCreateNode" THEN << Diagram(r) >>
  ELSE IF op = "handleNodesChange" THEN << Diagram(s) >>
  ELSE << >>

\* ------------------------------------------------------------------ actions
\* The handler named op ran in state Ed and left the editor in state r.
\* ReactFlow reports a selection of elements that are present, so the ids of
\* removed elements leave selectedNodes and selectedEdges.
Ran(op, r) ==
  /\ mounted
  /\ IsEdit(op, Ed, r) => budget > 0
  /\ nodes' = r.nodes
  /\ edges' = r.edges
  /\ selectedTool' = r.selectedTool
  /\ selectedNodes' = r.selectedNodes \cap IdsOf(r.nodes)
  /\ selectedEdges' = r.selectedEdges \cap IdsOf(r.edges)
  /\ history' = r.history
  /\ historyIndex' = r.historyIndex
  /\ nodeIdCounter' = r.nodeIdCounter
  /\ now' = r.now
  /\ budget' = IF IsEdit(op, Ed, r) THEN budget - 1 ELSE budget
  /\ script' = NextScript(op, Ed, r)
  /\ lastRun' = NextLast(op, Ed, r)
  /\ studioFlow' = IF studioFlow = << >> \/ onFlowChange(op, Ed, r) = << >>
                   THEN studioFlow ELSE onFlowChange(op, Ed, r)
  /\ UNCHANGED << mounted, flow, editable, toolbarClosure, gvars >>
  /\ UNCHANGED << activeTool, isProjectMode, isGenerating, architecture, calls >>

EdUnmounted ==
  /\ mounted = FALSE
  /\ flow = EmptyFlow
  /\ editable = TRUE
  /\ nodes = << >>
  /\ edges = << >>
  /\ selectedTool = "select"
  /\ selectedNodes = {}
  /\ selectedEdges = {}
  /\ history = << >>
  /\ historyIndex = -1
  /\ nodeIdCounter = 1000
  /\ now = 0
  /\ toolbarClosure = Captured(<< >>, << >>, {}, {}, << >>, -1)
  /\ budget = 0
  /\ script = ScriptOff
  /\ lastRun = LastNone

\* The editor starts on flow f with the editable prop e, followed through
\* n edits, the script observer starting as sc.
Mounts(f, e, n, sc) ==
  /\ mounted' = TRUE
  /\ flow' = f
  /\ editable' = e
  /\ nodes' = f.nodes
  /\ edges' = f.edges
  /\ toolbarClosure' = Captured(f.nodes, f.edges, {}, {}, << >>, -1)
  /\ budget' = n
  /\ script' = sc
  /\ UNCHANGED << selectedTool, selectedNodes, selectedEdges, history,
                  historyIndex, nodeIdCounter, now, lastRun, gvars >>

\* <FlowDiagram flow={flow} editable={...}/> is rendered for the first time.
Mount ==
  /\ ~mounted
  /\ \E f \in InitialFlows, e \in BOOLEAN : Mounts(f, e, MaxEdits, ScriptOff)
  /\ UNCHANGED svars

\* The same, as AppStudio renders it (editable), on the one-screen flow.
MountHome ==
  /\ ~mounted
  /\ Mounts(HomeFlow, TRUE, MaxHistory, ScriptStart)
  /\ UNCHANGED svars

\* The nodes that render a target handle: every node but a start node.
TargetIds(ns) == { ns[i].id : i \in { j \in 1..Len(ns) : ns[j].type # "start" } }

\* A connection is drawn between two handles (ReactFlow offers the gesture
\* only while nodesConnectable; the handler has its own check).
Connect ==
  /\ \E source \in IdsOf(nodes), target \in TargetIds(nodes) :
       Ran("onConnect", onConnect(Ed, source, target, now + 1))

\* What ReactFlow can report as selected: nothing (a click on the pane), one
\* node or one edge (a click on it), two nodes or a node and an edge (a
\* shift-click on the second), every node, or every node and every edge (a
\* selection box).
Selections(ns, es) ==
  { << {}, {} >>, << IdsOf(ns), {} >>, << IdsOf(ns), IdsOf(es) >> }
    \cup { << {n, m}, {} >> : n \in IdsOf(ns), m \in IdsOf(ns) }
    \cup { << {}, {e} >> : e \in IdsOf(es) }
    \cup { << {n}, {e} >> : n \in IdsOf(ns), e \in IdsOf(es) }

\* elementsSelectable = editable
SelectionChange ==
  /\ editable
  /\ \E sel \in Selections(nodes, edges) :
       Ran("onSelectionChange", onSelectionChange(Ed, sel[1], sel[2]))

\* Toolbar select/pan, or the 'v' and 'h' keys.
SelectTool ==
  /\ mounted
  /\ \E tool \in {"select", "pan"} :
       Ran("setSelectedTool", setSelectedTool(Ed, tool))

\* Delete/Backspace key, or Delete in the selection toolbar.
DeleteSelected ==
  /\ mounted
  /\ Ran("handleDeleteSelected", handleDeleteSelected(Ed))

\* Ctrl+Z
Undo ==
  /\ mounted
  /\ Ran("handleUndo", handleUndo(Ed))

\* Ctrl+Shift+Z, Ctrl+Y
Redo ==
  /\ mounted
  /\ Ran("handleRedo", handleRedo(Ed))

\* A node is dragged and dropped (nodesDraggable = editable && select tool).
MoveNode ==
  /\ editable /\ selectedTool = "select"
  /\ \E n \in IdsOf(nodes), p \in DropPositions :
       Ran("handleNodesChange", handleNodesChange(Ed, n, p))

\* A template is picked in the node creation panel.
CreateNode ==
  /\ \E tpl \in Templates :
       Ran("handleCreateNode", handleCreateNode(Ed, tpl, CreatePosition))

\* The edit dialog, opened from a node's context menu, is saved.
EditNode ==
  \E n \in IdsOf(nodes), l \in EditLabels :
    Ran("handleEditNode", handleEditNode(Ed, n, l))

\* Delete in an edge's context menu.
DeleteEdge ==
  \E e \in IdsOf(edges) : Ran("handleDeleteEdge", handleDeleteEdge(Ed, e))

\* The selection toolbar is rendered while more than one element is selected.
SelectionToolbarShown == Cardinality(selectedNodes) + Cardinality(selectedEdges) > 1

AlignNodes ==
  /\ SelectionToolbarShown
  /\ \E d \in {"left", "center", "right"} :
       Ran("handleAlignNodes", handleAlignNodes(Ed, d))

DistributeNodes ==
  /\ SelectionToolbarShown
  /\ \E d \in {"horizontal", "vertical"} :
       Ran("handleDistributeNodes", handleDistributeNodes(Ed, d))

\* Delete in a node's context menu.
ContextMenuDelete ==
  \E n \in IdsOf(nodes) : Ran("contextMenuDelete", contextMenuDelete(Ed, n))

\* Duplicate in a node's context menu.
ContextMenuDuplicate ==
  /\ \E n \in IdsOf(nodes) :
       Ran("contextMenuDuplicate", contextMenuDuplicate(Ed, n))

EdNext ==
  \/ Mount
  \/ Connect
  \/ SelectionChange
  \/ SelectTool
  \/ DeleteSelected
  \/ Undo
  \/ Redo
  \/ MoveNode
  \/ CreateNode
  \/ EditNode
  \/ DeleteEdge
  \/ AlignNodes
  \/ DistributeNodes
  \/ ContextMenuDelete
  \/ ContextMenuDuplicate

\* ====================================================== generation actions
NoOutcome == [ kind |-> "none", parsed |-> [screens |-> << >>, transitions |-> << >>] ]

GenInit ==
  /\ gpc = "idle"
  /\ goal = {}
  /\ outcome = NoOutcome
  /\ settled = Rejected

\* A caller invokes generateArchitecture(goal).
CallGenerate ==
  /\ gpc = "idle"
  /\ \E g \in Goals : goal' = g
  /\ gpc' = "awaiting"
  /\ UNCHANGED << outcome, settled, evars, ovars, svars >>

\* The service call completes one way or another and the promise settles.
Settle ==
  /\ gpc = "awaiting"
  /\ \E o \in Outcomes, t \in Times :
       /\ outcome' = o
       /\ settled' = generateArchitecture(goal, o, t)
  /\ gpc' = "settled"
  /\ UNCHANGED << goal, evars, ovars, svars >>

\* The caller is done with the result; the generator can be called again.
Release ==
  /\ gpc = "settled"
  /\ gpc' = "idle"
  /\ goal' = {}
  /\ outcome' = NoOutcome
  /\ settled' = Rejected
  /\ UNCHANGED << evars, ovars, svars >>

GenNext == CallGenerate \/ Settle \/ Release

\* The history handlers, and the handlers that give them something to record.
HistoryNext ==
  \/ MountHome
  \/ SelectionChange
  \/ CreateNode
  \/ EditNode
  \/ DeleteEdge
  \/ DeleteSelected
  \/ Undo
  \/ Redo

\* ========================================================== drag sessions
\* Edits one session of dragging is followed through.
MaxDrags == 3

\* Positions the pointer passes through while a node is dragged (on the grid).
DragPositions == { Pos(100, 560), Pos(400, 560) }

\* The editor is rendered on the dashboard-and-list flow.
MountList ==
  /\ ~mounted
  /\ Mounts(DashboardListFlow, TRUE, MaxDrags, ScriptOff)
  /\ UNCHANGED svars

\* One position change of a drag: ReactFlow reports every pointer move of the
\* drag, and its end, through onNodesChange; no drag-end handler is passed.
DragNode ==
  /\ editable /\ selectedTool = "select"
  /\ \E n \in IdsOf(nodes), p \in DragPositions :
       Ran("handleNodesChange", handleNodesChange(Ed, n, p))

\* Dragging, between handlers that record snapshots and walk the history.
DragNext ==
  \/ MountList
  \/ DragNode
  \/ Connect
  \/ Undo
  \/ Redo

\* ======================================================= toolbar sessions
\* The toolbar's Delete button (enabled while something is selected).
ToolbarDelete ==
  /\ Cardinality(selectedNodes) + Cardinality(selectedEdges) > 0
  /\ Ran("handleDeleteSelected", handleToolbarAction(Ed, toolbarClosure, "delete"))

\* The toolbar's Undo button (enabled while canUndo).
ToolbarUndo ==
  /\ historyIndex > 0
  /\ Ran("handleUndo", handleToolbarAction(Ed, toolbarClosure, "undo"))

\* The toolbar's Redo button (enabled while canRedo).
ToolbarRedo ==
  /\ historyIndex < Len(history) - 1
  /\ Ran("handleRedo", handleToolbarAction(Ed, toolbarClosure, "redo"))

\* The grid is switched on or off ('g', or the toolbar's grid button):
\* showGrid changes, so handleToolbarAction is made anew in this render.
ToggleGrid ==
  /\ mounted
  /\ toolbarClosure # Captured(nodes, edges, selectedNodes, selectedEdges,
                               history, historyIndex)
  /\ toolbarClosure' = Captured(nodes, edges, selectedNodes, selectedEdges,
                                history, historyIndex)
  /\ UNCHANGED << mounted, flow, editable, nodes, edges, selectedTool, selectedNodes,
                  selectedEdges, history, historyIndex, nodeIdCounter, now,
                  gvars, ovars, svars >>

\* The history handlers, from the keyboard and from the toolbar.
ToolbarNext ==
  \/ MountHome
  \/ SelectionChange
  \/ DeleteSelected
  \/ Undo
  \/ Redo
  \/ ToolbarDelete
  \/ ToolbarUndo
  \/ ToolbarRedo
  \/ ToggleGrid

\* ============================================================ studio page
\* handleGenerate runs one session is followed through.
MaxCalls == 2

\* Two Architectures the architecture endpoint may answer with.
HomeArchitecture ==
  [ id |-> 1, name |-> "Home App",
    screens |-> TableScreens(<< <<"Home", "home">> >>),
    transitions |-> << >> ]

DashboardListArchitecture ==
  [ id |-> 2, name |-> "List App",
    screens |-> TableScreens(<< <<"Dashboard", "dashboard">>, <<"Items", "list">> >>),
    transitions |-> TableTransitions(<< <<0, 1>> >>) ]

StudioArchitectures == { HomeArchitecture, DashboardListArchitecture }

\* const newFlow = AIFlowGenerator.architectureToFlow(newArchitecture)
LayoutOf(a) == architectureToFlow(a)

\* How a fetch can complete: a 2xx response, another status, or a rejection.
FetchResults == { "ok", "not_ok", "rejects" }

\* additionalThoughts.length
AdditionalThoughts == 5

\* The chat holds no message of the run (setChatMessages([]) dropped it).
NoMessage == [ type |-> "none", currentThought |-> -1 ]

\* initialThinkingMessage; currentThought 0 stands for a thought that is none
\* of the additionalThoughts, k >= 1 for additionalThoughts[k - 1].
ThinkingMessage == [ type |-> "thinking", currentThought |-> 0 ]

\* The message as the success and the catch branch rewrite it: type
\* 'assistant', currentThought undefined.
Final(message) ==
  IF message = NoMessage THEN NoMessage
  ELSE [ type |-> "assistant", currentThought |-> -1 ]

\* A handleGenerate run that has just started: the thinking fetch is awaited,
\* the architecture fetch is not issued yet.  `abandoned` records that the
\* project was reset while the run was still going; timer is thinkingInterval
\* ("none" before setInterval, then "running", "cleared" after
\* clearInterval), thoughtCounter its counter, message the run's chat message.
CallStarted ==
  [ thinking |-> "pending", response |-> "none", abandoned |-> FALSE,
    timer |-> "none", thoughtCounter |-> 0, message |-> ThinkingMessage ]

\* The run has not reached its finally block.
InFlight(call) == call.thinking = "pending" \/ call.response = "pending"

StudioInit ==
  /\ activeTool = "home"
  /\ isProjectMode = FALSE
  /\ isGenerating = FALSE
  /\ architecture = << >>
  /\ studioFlow = << >>
  /\ calls = << >>

\* FlowDiagramInner goes away: its hooks' state is dropped.
Unmounts ==
  /\ mounted' = FALSE
  /\ flow' = EmptyFlow
  /\ editable' = TRUE
  /\ nodes' = << >>
  /\ edges' = << >>
  /\ selectedTool' = "select"
  /\ selectedNodes' = {}
  /\ selectedEdges' = {}
  /\ history' = << >>
  /\ historyIndex' = -1
  /\ nodeIdCounter' = 1000
  /\ now' = 0
  /\ toolbarClosure' = Captured(<< >>, << >>, {}, {}, << >>, -1)
  /\ budget' = 0
  /\ script' = ScriptOff
  /\ lastRun' = LastNone

\* What rendering AppStudio does to the editor: the project view shows
\* <FlowDiagram flow={flow} editable={true}/> when flow is not null.  A
\* FlowDiagram that is already there stays the same component instance (it
\* has no key): its hooks keep their state whatever the new flow prop is.
Renders(tool, mode, sf) ==
  IF tool = "flow-diagrams" /\ mode /\ sf # << >>
  THEN IF mounted
       THEN UNCHANGED << evars, ovars >>
       ELSE Mounts(sf[1], TRUE, MaxEdits, ScriptOff)
  ELSE Unmounts

\* Every run still going is marked as abandoned, and setChatMessages([])
\* drops every message.
Abandon(cs) ==
  [ c \in DOMAIN cs |->
      [ cs[c] EXCEPT !.abandoned = (InFlight(cs[c]) \/ cs[c].abandoned),
                     !.message = NoMessage ] ]

\* Enter in the landing page's textarea: handleGenerate(goal) starts.
HandleGenerate ==
  /\ activeTool = "flow-diagrams"
  /\ ~isProjectMode
  /\ Len(calls) < MaxCalls
  /\ calls' = Append(calls, CallStarted)
  /\ isGenerating' = TRUE
  /\ isProjectMode' = TRUE
  /\ Renders(activeTool, TRUE, studioFlow)
  /\ UNCHANGED << activeTool, architecture, studioFlow, gvars >>

\* The awaited thinking fetch of a run completes.  A 2xx response lets the run
\* go on to issue the architecture fetch, show the thinking steps, start
\* thinkingInterval and await the architecture fetch; any other completion
\* throws into the catch block, which rewrites the message, and the run ends
\* in finally.
ThinkingSettles ==
  /\ \E c \in 1..Len(calls), o \in FetchResults :
       /\ calls[c].thinking = "pending"
       /\ calls' = [ calls EXCEPT ![c].thinking = o,
                                  ![c].response = IF o = "ok" THEN "pending" ELSE "none",
                                  ![c].timer = IF o = "ok" THEN "running" ELSE "none",
                                  ![c].message = IF o = "ok" THEN calls[c].message
                                                 ELSE Final(calls[c].message) ]
       /\ isGenerating' = IF o = "ok" THEN isGenerating ELSE FALSE
  /\ UNCHANGED << activeTool, isProjectMode, architecture, studioFlow, gvars, evars, ovars >>

\* The awaited architecture fetch of a run completes.  A response, 2xx or
\* not, lets the run go on to clearInterval; a rejection throws out of the
\* await, past clearInterval, into the catch block.  On a 2xx response the
\* run sets architecture and flow; the message is rewritten and the run ends
\* in finally either way.
ArchitectureSettles ==
  /\ \E c \in 1..Len(calls), o \in FetchResults, a \in StudioArchitectures :
       /\ calls[c].response = "pending"
       /\ calls' = [ calls EXCEPT ![c].response = o,
                                  ![c].timer = IF o = "rejects" THEN calls[c].timer
                                               ELSE "cleared",
                                  ![c].message = Final(calls[c].message) ]
       /\ architecture' = IF o = "ok" THEN << a >> ELSE architecture
       /\ studioFlow' = IF o = "ok" THEN << LayoutOf(a) >> ELSE studioFlow
  /\ isGenerating' = FALSE
  /\ Renders(activeTool, isProjectMode, studioFlow')
  /\ UNCHANGED << activeTool, isProjectMode, gvars >>

\* thinkingInterval fires (every 3 seconds until it is cleared): while
\* thoughtCounter < additionalThoughts.length the run's message, if the chat
\* still holds it, gets the next additional thought.
ThinkingInterval ==
  /\ \E c \in 1..Len(calls) :
       /\ calls[c].timer = "running"
       /\ calls[c].thoughtCounter < AdditionalThoughts
       /\ calls' = [ calls EXCEPT
                       ![c].thoughtCounter = calls[c].thoughtCounter + 1,
                       ![c].message =
                         IF calls[c].message = NoMessage THEN NoMessage
                         ELSE [ calls[c].message EXCEPT
                                  !.currentThought = calls[c].thoughtCounter + 1 ] ]
  /\ UNCHANGED << activeTool, isProjectMode, isGenerating, architecture, studioFlow,
                  gvars, evars, ovars >>

\* The Start Over button of the project view.
HandleStartOver ==
  /\ activeTool = "flow-diagrams"
  /\ isProjectMode
  /\ isProjectMode' = FALSE
  /\ architecture' = << >>
  /\ studioFlow' = << >>
  /\ calls' = Abandon(calls)
  /\ Unmounts
  /\ UNCHANGED << activeTool, isGenerating, gvars >>

\* Back to Tools on the landing page.
HandleBackToHome ==
  /\ activeTool = "flow-diagrams"
  /\ ~isProjectMode
  /\ activeTool' = "home"
  /\ UNCHANGED << isProjectMode, isGenerating, architecture, studioFlow, calls,
                  gvars, evars, ovars >>

\* The flow-diagrams card of the tools page: the tool is reset.
HandleToolSelect ==
  /\ activeTool = "home"
  /\ activeTool' = "flow-diagrams"
  /\ isProjectMode' = FALSE
  /\ architecture' = << >>
  /\ studioFlow' = << >>
  /\ calls' = Abandon(calls)
  /\ UNCHANGED << isGenerating, gvars, evars, ovars >>

\* The studio page, and the editor handlers that report to it.
StudioNext ==
  \/ HandleToolSelect
  \/ HandleBackToHome
  \/ HandleGenerate
  \/ ThinkingSettles
  \/ ArchitectureSettles
  \/ ThinkingInterval
  \/ HandleStartOver
  \/ Connect
  \/ CreateNode
  \/ MoveNode
  \/ SelectionChange
  \/ DeleteSelected

\* ================================================== layout of a response
\* Types a payload screen may carry here ("splash" is no ScreenType).
PayloadTypes == { "loading", "auth", "onboarding", "dashboard", "list", "splash" }

\* Payloads of unnamed screens with a type each and no transitions.
TypedPayloads ==
  [ screens : SeqsUpTo([name : { NoName }, type : PayloadTypes], MaxScreens),
    transitions : { << >> } ]

\* What the generation service does on one call, with typed payloads.
TypedOutcomes ==
  [ kind : {"no_service", "text_rejects", "not_json", "json_null"},
    parsed : { [screens |-> << >>, transitions |-> << >>] } ]
  \cup [ kind : {"json"}, parsed : TypedPayloads ]

\* The service call completes and the promise settles.
SettleTyped ==
  /\ gpc = "awaiting"
  /\ \E o \in TypedOutcomes, t \in Times :
       /\ outcome' = o
       /\ settled' = generateArchitecture(goal, o, t)
  /\ gpc' = "settled"
  /\ UNCHANGED << goal, evars, ovars, svars >>

\* AppStudio lays out the Architecture of a response: architectureToFlow of
\* it becomes the flow state, next to the architecture state.
Deliver ==
  /\ gpc = "settled" /\ settled.ok
  /\ architecture = << >>
  /\ architecture' = << settled.value >>
  /\ studioFlow' = << architectureToFlow(settled.value) >>
  /\ UNCHANGED << gvars, evars, ovars, activeTool, isProjectMode, isGenerating, calls >>

\* Start Over: architecture and flow go back to null; the generator can be
\* called again.
Discard ==
  /\ gpc = "settled"
  /\ architecture # << >>
  /\ architecture' = << >>
  /\ studioFlow' = << >>
  /\ gpc' = "idle"
  /\ goal' = {}
  /\ outcome' = NoOutcome
  /\ settled' = Rejected
  /\ UNCHANGED << evars, ovars, activeTool, isProjectMode, isGenerating, calls >>

LayoutNext == CallGenerate \/ SettleTyped \/ Deliver \/ Discard

\* ----------------------------------------------------------- specifications
Init == GenInit /\ EdUnmounted /\ StudioInit

\* The generation pipeline.
SpecGen == Init /\ [][GenNext]_vars

\* The diagram editor, every handler.
Next == EdNext

Spec == Init /\ [][Next]_vars

\* The diagram editor, the history handlers over longer sessions.
SpecHistory == Init /\ [][HistoryNext]_vars

\* The studio page with the editor it renders.
SpecStudio == Init /\ [][StudioNext]_vars

\* The diagram editor, drags among recorded edits.
SpecDrag == Init /\ [][DragNext]_vars

\* The diagram editor, keyboard shortcuts and toolbar buttons.
SpecToolbar == Init /\ [][ToolbarNext]_vars

\* The generation pipeline with the layout of what it returns.
SpecLayout == Init /\ [][LayoutNext]_vars

\* ------------------------------------------------- properties: generation
\* The service, the decoding or the normalization failed on this call.
ServiceFailed == outcome.kind \in {"no_service", "text_rejects", "not_json", "json_null"}

RECURSIVE ReachSet(_, _, _)
\* Screen ids reachable from the set S along transitions, in at most n rounds.
ReachSet(S, transitions, n) ==
  IF n = 0 THEN S
  ELSE LET step == S \cup { transitions[i].to :
                              i \in { j \in 1..Len(transitions) : transitions[j].from \in S } }
       IN IF step = S THEN S ELSE ReachSet(step, transitions, n - 1)

\* At least one screen, and every screen reachable from the first one.
ConnectedFromFirst(a) ==
  /\ Len(a.screens) >= 1
  /\ { a.screens[i].id : i \in 1..Len(a.screens) }
       \subseteq ReachSet({ a.screens[1].id }, a.transitions, Len(a.screens))

\* C1: generateArchitecture never rejects, and whenever creating the service,
\* the generateText call, decoding or normalizing fails, it resolves to what
\* generateMockArchitecture produces for the same goal.
C1_FallbackOnFailure ==
  gpc = "settled" =>
    /\ settled.ok
    /\ ServiceFailed =>
         settled.value = generateMockArchitecture(goal, settled.value.id)

\* C1 witness: a call whose response was not JSON has settled with the
\* productivity fallback (no dashboard, eight screens).
C1_Witness ==
  /\ gpc = "settled"
  /\ outcome.kind = "not_json"
  /\ goal = {"productivity"}
  /\ settled.ok
  /\ Len(settled.value.screens) = 8

\* C2 (as claimed): whatever the service does, the returned Architecture has
\* at least one screen and every screen is reachable from the first screen.
C2_ConnectedResult ==
  gpc = "settled" => settled.ok /\ ConnectedFromFirst(settled.value)

\* The names the lookup of a transition endpoint is made against.
PayloadScreenNames == { outcome.parsed.screens[i].name : i \in 1..Len(outcome.parsed.screens) }

NormalizedScreenNames == { settled.value.screens[i].name : i \in 1..Len(settled.value.screens) }

\* The result holds a transition made from payload transition number i.
Kept(i) == \E k \in 1..Len(settled.value.transitions) :
             settled.value.transitions[k].id = TransitionId(i - 1)

\* The kept transition i joins screens that carry the names the payload gave.
NotRedirected(i) ==
  \A k \in 1..Len(settled.value.transitions) :
    settled.value.transitions[k].id = TransitionId(i - 1) =>
      \E f, g \in 1..Len(settled.value.screens) :
        /\ settled.value.screens[f].id = settled.value.transitions[k].from
        /\ settled.value.screens[f].name = outcome.parsed.transitions[i].from
        /\ settled.value.screens[g].id = settled.value.transitions[k].to
        /\ settled.value.screens[g].name = outcome.parsed.transitions[i].to

\* C10 (as claimed): a payload transition is kept iff both endpoints equal
\* the name of some screen in the payload, and kept ones are not redirected.
C10_KeptIffPayloadName ==
  (gpc = "settled" /\ outcome.kind = "json") =>
    \A i \in 1..Len(outcome.parsed.transitions) :
      /\ Kept(i) <=> /\ outcome.parsed.transitions[i].from \in PayloadScreenNames
                     /\ outcome.parsed.transitions[i].to \in PayloadScreenNames
      /\ NotRedirected(i)

\* C10 (amended): a payload transition is kept iff both endpoints equal the
\* name of some normalized screen (its payload name, or `Screen <index>` when
\* the payload gives none); every other one is dropped, kept ones keep their
\* order and are not redirected.
C10_KeptIffNormalizedName ==
  (gpc = "settled" /\ outcome.kind = "json") =>
    /\ \A i \in 1..Len(outcome.parsed.transitions) :
         /\ Kept(i) <=> /\ outcome.parsed.transitions[i].from \in NormalizedScreenNames
                        /\ outcome.parsed.transitions[i].to \in NormalizedScreenNames
         /\ NotRedirected(i)
    /\ \A k \in 1..Len(settled.value.screens) :
         settled.value.screens[k].name =
           IF outcome.parsed.screens[k].name = NoName
           THEN DefaultName(k - 1) ELSE outcome.parsed.screens[k].name

\* C10 witness: a payload with one resolvable and one unresolvable transition
\* has been repaired: the first is kept, the second dropped.
C10_Witness ==
  /\ gpc = "settled"
  /\ outcome.kind = "json"
  /\ Len(outcome.parsed.transitions) = 2
  /\ Kept(1)
  /\ ~Kept(2)
  /\ outcome.parsed.transitions[2].to \notin NormalizedScreenNames

\* Transitions of the result made from payload transitions, and the synthetic
\* ones the repair added.
NormalizedOf(a) == SelectSeq(a.transitions, LAMBDA t : t.id \in Range(TransitionIds))

SyntheticOf(a) == SelectSeq(a.transitions, LAMBDA t : t.id \in Range(FallbackTransitionIds))

\* Ids of the screens that some transition of the sequence starts or ends at.
IncidentIds(transitions) ==
  { transitions[i].from : i \in 1..Len(transitions) }
  \cup { transitions[i].to : i \in 1..Len(transitions) }

\* C11 (as claimed): for every decoded payload the repair adds exactly one
\* synthetic transition per screen that no normalized transition touches,
\* ending at that screen, and none for any other screen; so with two or more
\* screens every screen of the result has an incident transition.
C11_RepairAttachesOrphans ==
  (gpc = "settled" /\ outcome.kind = "json") =>
    LET a == settled.value
        orphans == { a.screens[i].id : i \in 1..Len(a.screens) }
                     \ IncidentIds(NormalizedOf(a))
        synthetic == SyntheticOf(a)
    IN /\ \A id \in orphans :
            Cardinality({ k \in 1..Len(synthetic) : synthetic[k].to = id }) = 1
       /\ Len(synthetic) = Cardinality(orphans)
       /\ Len(a.screens) >= 2 =>
            { a.screens[i].id : i \in 1..Len(a.screens) } \subseteq IncidentIds(a.transitions)

\* C12 (as claimed): the fallback Architecture for a goal is the same at any
\* two times, field by field, id included.
C12_FallbackPure ==
  (gpc = "settled" /\ ServiceFailed) =>
    \A t \in Times : generateMockArchitecture(goal, t) = settled.value

\* C13: for every goal the fallback Architecture has at least one screen and
\* every screen is reachable from the first along its transitions.
C13_FallbackConnected ==
  (gpc = "settled" /\ ServiceFailed) =>
    /\ settled.ok
    /\ ConnectedFromFirst(settled.value)

\* C13 witness: a goal with no keyword at all has got the general template
\* (nine screens, dashboard included) after the service call was rejected.
C13_Witness ==
  /\ gpc = "settled"
  /\ outcome.kind = "text_rejects"
  /\ goal = {}
  /\ Len(settled.value.screens) = 9
  /\ Len(settled.value.transitions) = 9

\* "Build a todo app with login and dashboard": of the keyword lists of
\* analyzeGoal only the productivity one matches (todo).
TodoGoal == { "productivity" }

\* Screen `to` can be reached from screen `from` along transitions of a.
Reaches(a, from, to) == to \in ReachSet({ from }, a.transitions, Len(a.screens))

\* Ids of the screens of a whose type is one of types.
OfType(a, types) == { a.screens[i].id : i \in { j \in 1..Len(a.screens) : a.screens[j].type \in types } }

\* C14 (as claimed): with the service disabled the todo goal yields screens of
\* type auth, dashboard or home, list and form, joined by a directed path
\* auth -> dashboard -> list -> form.
C14_TodoFlow ==
  (gpc = "settled" /\ outcome.kind = "no_service" /\ goal = TodoGoal) =>
    LET a == settled.value IN
    \E au \in OfType(a, {"auth"}), d \in OfType(a, {"dashboard", "home"}),
       l \in OfType(a, {"list"}), f \in OfType(a, {"form"}) :
      /\ Reaches(a, au, d)
      /\ Reaches(a, d, l)
      /\ Reaches(a, l, f)

\* C15: in every Architecture generateArchitecture returns, each transition
\* starts and ends at a screen of that Architecture, no two screens share an
\* id and no two transitions share an id.
C15_IdsConsistent ==
  gpc = "settled" =>
    LET a == settled.value
        screenIds == { a.screens[i].id : i \in 1..Len(a.screens) }
    IN /\ settled.ok
       /\ IncidentIds(a.transitions) \subseteq screenIds
       /\ \A i, j \in 1..Len(a.screens) : a.screens[i].id = a.screens[j].id => i = j
       /\ \A i, j \in 1..Len(a.transitions) :
            a.transitions[i].id = a.transitions[j].id => i = j

\* C15 witness: a repaired payload of three screens whose result holds a
\* normalized transition and two synthetic ones.
C15_Witness ==
  /\ gpc = "settled"
  /\ outcome.kind = "json"
  /\ Len(settled.value.screens) = 3
  /\ Len(NormalizedOf(settled.value)) = 1
  /\ Len(SyntheticOf(settled.value)) = 2

\* ----------------------------------------------------- properties: layout
\* An Architecture has been laid out: Laid is it, Drawn its diagram.
HasLayout == architecture # << >> /\ studioFlow # << >>

Laid == architecture[1]

Drawn == studioFlow[1]

\* The type of the screen with this id in the laid-out Architecture.
TypeOf(id) == Laid.screens[FindById(Laid.screens, id)].type

\* The forward pairs C23 lists.
ClaimedPairs ==
  { << "loading", "auth" >>, << "auth", "onboarding" >>, << "auth", "dashboard" >>,
    << "onboarding", "dashboard" >>, << "dashboard", "list" >>, << "home", "list" >>,
    << "list", "detail" >>, << "list", "form" >> }

\* The place of a screen type in the stage order: launch, auth, onboarding,
\* dashboard/home, primary list, secondary detail/form, account.
StageRank(type) ==
  IF type \in {"loading", "splash"} THEN 1
  ELSE IF type = "auth" THEN 2
  ELSE IF type = "onboarding" THEN 3
  ELSE IF type \in {"dashboard", "home"} THEN 4
  ELSE IF type \in {"list", "grid"} THEN 5
  ELSE IF type \in {"detail", "form"} THEN 6
  ELSE 7

\* The diagram edge e is the edge of a Transition of the Architecture whose
\* screens' types form one of the listed forward pairs.
OfForwardTransition(e) ==
  /\ \E k \in 1..Len(Laid.transitions) :
       Laid.transitions[k].from = e.source /\ Laid.transitions[k].to = e.target
  /\ << TypeOf(e.source), TypeOf(e.target) >> \in ClaimedPairs

\* The diagram edge e runs from an earlier stage to a later one.
RunsForward(e) == StageRank(TypeOf(e.source)) < StageRank(TypeOf(e.target))

\* C23 (as claimed): every edge of the diagram that does not leave the start
\* node has a Transition of the Architecture with the same from and to, and
\* the types of that Transition's screens form one of the listed forward
\* pairs; no edge is drawn for a backward pair.
C23_EdgesAreForwardTransitions ==
  HasLayout =>
    \A i \in 1..Len(Drawn.edges) :
      Drawn.edges[i].source # "start" =>
        OfForwardTransition(Drawn.edges[i]) /\ RunsForward(Drawn.edges[i])

\* The ids of the screens that populate each stage, in stage order: the
\* launch screen, the auth screens, the onboarding screen, the dashboard or
\* home screen, the primary list.
Stages ==
  LET first(types) ==
        IF FindByType(Laid.screens, types) = 0 THEN {}
        ELSE { Laid.screens[FindByType(Laid.screens, types)].id }
  IN << first({"loading"}),
        OfType(Laid, {"auth"}),
        first({"onboarding"}),
        first({"dashboard", "home"}),
        first({"list", "grid"}) >>

\* The x a screen (or the start node) is drawn at.
DrawnX(id) == Drawn.nodes[FindById(Drawn.nodes, id) ].position.x

\* C24: the screens of one stage share their x; the x of the populated
\* stages increases strictly in the order launch, auth, onboarding,
\* dashboard/home, primary list; the start node lies left of every stage.
\* In particular every auth screen lies left of the dashboard/home screen.
C24_StagesLeftToRight ==
  HasLayout =>
    /\ \A i \in 1..5 : \A s \in Stages[i], u \in Stages[i] : DrawnX(s) = DrawnX(u)
    /\ \A i \in 1..5, j \in 1..5 :
         i < j => \A s \in Stages[i], u \in Stages[j] : RLess(DrawnX(s), DrawnX(u))
    /\ \A i \in 1..5 : \A s \in Stages[i] : RLess(DrawnX("start"), DrawnX(s))
    /\ \A s \in Stages[2], u \in Stages[4] : RLess(DrawnX(s), DrawnX(u))

\* An Architecture with all five stages populated has been laid out, its
\* onboarding screen listed before its auth screen.
C24_Witness ==
  /\ HasLayout
  /\ \A i \in 1..5 : Stages[i] # {}
  /\ FindByType(Laid.screens, {"onboarding"}) < FindByType(Laid.screens, {"auth"})

\* The diagram edge e is one of the connections the layout adds between
\* stages whether or not a Transition states it: the launch screen to an
\* auth screen, the launch screen to the onboarding screen when there is no
\* auth screen, an auth screen to the dashboard/home screen, the
\* dashboard/home screen to the primary list/grid screen.
StageConnection(e) ==
  \/ e.source \in Stages[1] /\ e.target \in Stages[2]
  \/ e.source \in Stages[1] /\ e.target \in Stages[3] /\ Stages[2] = {}
  \/ e.source \in Stages[2] /\ e.target \in Stages[4]
  \/ e.source \in Stages[4] /\ e.target \in Stages[5]

\* C23 (amended): every edge of the diagram that does not leave the start
\* node either has a Transition of the Architecture with the same from and
\* to whose screens' types form one of the listed forward pairs, or is one
\* of the added stage connections; no edge is drawn for a backward pair.
C23_EdgesAreForwardOrAdded ==
  HasLayout =>
    \A i \in 1..Len(Drawn.edges) :
      Drawn.edges[i].source # "start" =>
        /\ OfForwardTransition(Drawn.edges[i]) \/ StageConnection(Drawn.edges[i])
        /\ RunsForward(Drawn.edges[i])

\* C23 witness: the laid-out Architecture has a Transition of a listed
\* forward pair that is drawn, a backward Transition (detail to list) that
\* is not drawn, and the diagram has an added connection no Transition states.
C23_Witness ==
  /\ HasLayout
  /\ \E i \in 1..Len(Drawn.edges) :
       Drawn.edges[i].source # "start" /\ OfForwardTransition(Drawn.edges[i])
  /\ \E k \in 1..Len(Laid.transitions) :
       /\ TypeOf(Laid.transitions[k].from) = "detail"
       /\ TypeOf(Laid.transitions[k].to) = "list"
       /\ \A i \in 1..Len(Drawn.edges) :
            ~ ( Drawn.edges[i].source = Laid.transitions[k].from
                /\ Drawn.edges[i].target = Laid.transitions[k].to )
  /\ \E i \in 1..Len(Drawn.edges) :
       /\ Drawn.edges[i].source # "start"
       /\ ~ OfForwardTransition(Drawn.edges[i])
       /\ StageConnection(Drawn.edges[i])

\* The nodes reached from the node set S along at most n diagram edges.
RECURSIVE DrawnReach(_, _)
DrawnReach(S, n) ==
  IF n = 0 THEN S
  ELSE DrawnReach(S \cup { Drawn.edges[i].target :
                             i \in { j \in 1..Len(Drawn.edges) : Drawn.edges[j].source \in S } },
                  n - 1)

\* C25: every screen node of the diagram is reached from the start node.
C25_NoOrphanNode ==
  HasLayout => IdsOf(Drawn.nodes) \subseteq DrawnReach({ "start" }, Len(Drawn.nodes))

\* C26: no two nodes of the diagram are drawn at the same position.
C26_DistinctPositions ==
  HasLayout =>
    \A i \in 1..Len(Drawn.nodes), j \in 1..Len(Drawn.nodes) :
      i # j => Drawn.nodes[i].position # Drawn.nodes[j].position

\* ----------------------------------------------------- properties: editor
\* C3 (as claimed): after k >= 1 recorded mutations on a freshly mounted
\* editor and then k undo calls, nodes and edges are the ones the editor was
\* mounted with.
C3_UndoAllRestoresInitial ==
  (script.phase = "undo" /\ script.u = Len(history)) => Diagram(Ed) = flow

\* C4 (as claimed): after k recorded mutations on a fresh editor, k undo
\* calls and then k redo calls, nodes and edges are the ones that existed
\* right after the k-th mutation.
C4_RedoAllRestoresLast ==
  (script.phase = "redo" /\ script.r = Len(history)) => Diagram(Ed) = script.after

\* C5 (as claimed): a deleteSelected that deleted, followed by exactly one
\* undo, leaves nodes and edges as they were immediately before the delete
\* (the snapshot that delete pushed, at index lastRun.at).
C5_DeleteThenUndoRestores ==
  lastRun.op = "deleteUndo" => Diagram(Ed) = history[lastRun.at + 1]

\* A step in which the handler named op pushed a snapshot.
Recorded(op) == lastRun'.op = op /\ historyIndex' # historyIndex

\* C6: a deleteSelected step, from the keyboard or from the toolbar, removes
\* exactly the selected nodes, the edges with a selected node as source or
\* target and the selected edges, keeps every other node and edge unchanged
\* and in order, and leaves both selections empty.
C6_DeleteRemovesExactly ==
  [][ Recorded("handleDeleteSelected") =>
        /\ nodes' = SelectSeq(nodes, LAMBDA n : n.id \notin selectedNodes)
        /\ edges' = SelectSeq(edges, LAMBDA e : /\ e.source \notin selectedNodes
                                                /\ e.target \notin selectedNodes
                                                /\ e.id \notin selectedEdges)
        /\ selectedNodes' = {}
        /\ selectedEdges' = {} ]_vars

\* C7: a recorded mutation (the toolbar's delete is one) made while
\* historyIndex < history.length - 1 keeps the snapshots up to historyIndex,
\* discards every later one and appends the diagram it started from; right
\* after it historyIndex is history.length - 1 and redo changes nothing.
C7_LinearHistory ==
  [][ ( /\ \E op \in Mutations : Recorded(op)
        /\ historyIndex < Len(history) - 1 ) =>
        /\ Len(history') = historyIndex + 2
        /\ \A j \in 1..(historyIndex + 1) : history'[j] = history[j]
        /\ history'[Len(history')] = Diagram(Ed)
        /\ historyIndex' = Len(history') - 1
        /\ handleRedo(Ed') = Ed' ]_vars

\* The fields of the editor state that undo and redo may touch.
Undoable(s) ==
  [ nodes |-> s.nodes, edges |-> s.edges,
    history |-> s.history, historyIndex |-> s.historyIndex ]

\* C8: in every reachable state -1 <= historyIndex <= history.length - 1;
\* undo at historyIndex <= 0 and redo at historyIndex >= history.length - 1
\* leave nodes, edges, history and historyIndex unchanged; anywhere else
\* they move historyIndex by exactly one, leave history alone and replace
\* nodes and edges by the snapshot at the new index.  Undo and redo are run
\* from the keyboard or from the toolbar.
C8_UndoRedoByOne ==
  mounted =>
    /\ -1 <= historyIndex
    /\ historyIndex <= Len(history) - 1
    /\ \A undone \in { handleUndo(Ed), handleToolbarAction(Ed, toolbarClosure, "undo") } :
         IF historyIndex <= 0
         THEN Undoable(undone) = Undoable(Ed)
         ELSE /\ undone.historyIndex = historyIndex - 1
              /\ undone.history = history
              /\ Diagram(undone) = history[undone.historyIndex + 1]
    /\ \A redone \in { handleRedo(Ed), handleToolbarAction(Ed, toolbarClosure, "redo") } :
         IF historyIndex >= Len(history) - 1
         THEN Undoable(redone) = Undoable(Ed)
         ELSE /\ redone.historyIndex = historyIndex + 1
              /\ redone.history = history
              /\ Diagram(redone) = history[redone.historyIndex + 1]

\* The handlers C9 calls structural mutations.
StructuralHandlers ==
  { "onConnect", "handleDeleteSelected", "contextMenuDelete",
    "contextMenuDuplicate", "handleAlignNodes", "handleDistributeNodes" }

\* C9 (as claimed): while editable is false or the tool is 'pan', a run of
\* connect, deleteSelected, context-menu delete, duplicate, align or
\* distribute leaves nodes, edges, history and historyIndex unchanged.
C9_OnlyInSelectMode ==
  [][ ( /\ ~editable \/ selectedTool = "pan"
        /\ lastRun'.op \in StructuralHandlers
        /\ lastRun' # lastRun ) =>
        UNCHANGED << nodes, edges, history, historyIndex >> ]_vars

\* Indices of the selected nodes in the nodes array.
SelectedIndices == { i \in 1..Len(nodes) : nodes[i].id \in selectedNodes }

\* Least and greatest of a non-empty set of coordinates.
Least(S) == CHOOSE a \in S : \A b \in S : ~RLess(b, a)

Greatest(S) == CHOOSE a \in S : \A b \in S : ~RLess(a, b)

\* C19: in every editor state, align(direction) with two or more selected
\* nodes gives every selected node the same x (the least selected x for left,
\* the greatest for right, half their sum for center), keeps every y and
\* every unselected node; with fewer than two selected nodes it leaves nodes
\* and history as they are.
C19_AlignSharedX ==
  mounted =>
    \A direction \in {"left", "center", "right"} :
      LET r == handleAlignNodes(Ed, direction)
          xs == { nodes[i].position.x : i \in SelectedIndices }
      IN IF Cardinality(SelectedIndices) >= 2
         THEN /\ Len(r.nodes) = Len(nodes)
              /\ \A i \in SelectedIndices :
                   /\ r.nodes[i] = [ nodes[i] EXCEPT !.position.x = r.nodes[i].position.x ]
                   /\ direction = "left" => r.nodes[i].position.x = Least(xs)
                   /\ direction = "right" => r.nodes[i].position.x = Greatest(xs)
                   /\ direction = "center" =>
                        RMulInt(r.nodes[i].position.x, 2) = RAdd(Least(xs), Greatest(xs))
              /\ \A i \in (1..Len(nodes)) \ SelectedIndices : r.nodes[i] = nodes[i]
         ELSE /\ r.nodes = nodes
              /\ r.history = history
              /\ r.historyIndex = historyIndex

\* C19 witness: an align has just run on two selected nodes that stood at
\* different x, beside a third node that is not selected; the two now share
\* one x.
C19_Witness ==
  /\ lastRun.op = "handleAlignNodes"
  /\ Cardinality(SelectedIndices) = 2
  /\ Len(nodes) = 3
  /\ LET before == history[lastRun.at + 1].nodes
     IN /\ \E i, j \in SelectedIndices : before[i].position.x # before[j].position.x
        /\ \A i, j \in SelectedIndices : nodes[i].position.x = nodes[j].position.x

\* The place of selected node i in the order distribute sorts the selected
\* nodes into: the number of selected nodes that lie before it on the axis,
\* array order deciding between equal coordinates.
RankOf(i, direction) ==
  Cardinality({ j \in SelectedIndices :
                  \/ RLess(Coord(nodes[j], direction), Coord(nodes[i], direction))
                  \/ /\ Coord(nodes[j], direction) = Coord(nodes[i], direction)
                     /\ j < i })

Effect(r) == << r.nodes, r.edges, r.selectedNodes, r.selectedEdges, r.historyIndex >>

\* C28: in every state of the editor, undo, redo and delete triggered from
\* the toolbar leave the same nodes, edges, selection and historyIndex as the
\* same action triggered by its keyboard shortcut.
C28_ToolbarMatchesKeyboard ==
  mounted =>
    /\ Effect(handleToolbarAction(Ed, toolbarClosure, "undo")) = Effect(handleUndo(Ed))
    /\ Effect(handleToolbarAction(Ed, toolbarClosure, "redo")) = Effect(handleRedo(Ed))
    /\ Effect(handleToolbarAction(Ed, toolbarClosure, "delete"))
         = Effect(handleDeleteSelected(Ed))

\* A step in which handleNodesChange ran: the one edit that leaves lastRun
\* without a handler name.
Moved == budget' = budget - 1 /\ lastRun' = LastNone

\* C21: a move changes the position of one node and nothing else of the
\* editor: the other nodes, every other field of the moved node, the edges,
\* history, historyIndex, the selection and the id counter are the same
\* after the move, so no snapshot is recorded for it, however many move
\* events there are.
C21_MoveOnlyPosition ==
  [][Moved =>
       /\ edges' = edges
       /\ history' = history
       /\ historyIndex' = historyIndex
       /\ selectedNodes' = selectedNodes /\ selectedEdges' = selectedEdges
       /\ nodeIdCounter' = nodeIdCounter
       /\ Len(nodes') = Len(nodes)
       /\ \E n \in IdsOf(nodes) :
            \A i \in 1..Len(nodes) :
              nodes'[i] = IF nodes[i].id = n
                          THEN [ nodes[i] EXCEPT !.position = nodes'[i].position ]
                          ELSE nodes[i]]_vars

\* Two nodes have been dragged away after one connection was recorded: the
\* last edit was a move, and history holds the one snapshot of the connection.
C21_Witness ==
  /\ mounted /\ budget = MaxDrags - 3
  /\ lastRun = LastNone
  /\ Len(history) = 1 /\ historyIndex = 0
  /\ \E i, j \in 1..Len(nodes) :
       /\ i # j
       /\ nodes[i].position \in DragPositions
       /\ nodes[j].position \in DragPositions
       /\ nodes[i].position # nodes[j].position

\* ----------------------------------------------------- properties: studio
\* C16 (as claimed): when a handleGenerate run that was still going at a
\* Start Over or a tool reset comes to its end, architecture and flow stay as
\* they were.
C16_AbandonedCallDisregarded ==
  [][ \A c \in 1..Len(calls) :
        (calls[c].abandoned /\ InFlight(calls[c]) /\ ~InFlight(calls'[c]))
          => UNCHANGED << architecture, studioFlow >> ]_vars

\* C17 (as claimed): the architecture fetch of a run is issued whatever the
\* thinking fetch does, so a run whose thinking fetch failed or came back
\* with a non-2xx status has issued its architecture fetch all the same.
C17_ThinkingIndependent ==
  \A c \in 1..Len(calls) :
    calls[c].thinking \in {"not_ok", "rejects"} => calls[c].response # "none"

\* A run's architecture response is accepted in this step.
Accepted == \E c \in 1..Len(calls) : calls[c].response = "pending" /\ calls'[c].response = "ok"

\* C18 (as claimed): when a result is accepted the editor's nodes and edges
\* are the layout of the new Architecture, and the editor changes nodes or
\* edges only while the flow its state was started from is the layout of the
\* live architecture.
C18_ResultReplacesDiagram ==
  [][ /\ (Accepted /\ mounted') => Diagram(Ed') = LayoutOf(architecture'[1])
      /\ (mounted /\ mounted' /\ architecture # << >>
            /\ << nodes, edges >>' # << nodes, edges >>)
           => flow = LayoutOf(architecture[1]) ]_vars
\* The handleGenerate runs that have not reached their finally block.
Running == { c \in 1..Len(calls) : InFlight(calls[c]) }

\* C27: at most one handleGenerate run is going at any time, and
\* isGenerating is true whenever one is.
C27_OneGenerationInFlight ==
  /\ Cardinality(Running) <= 1
  /\ Running # {} => isGenerating

\* C29: a step of the editor that changes nodes or edges while the studio
\* page holds a flow leaves the page holding, as the flow last delivered
\* through onFlowChange, the editor's nodes and edges after the step.
C29_ParentHoldsDiagram ==
  [][ ( /\ mounted /\ mounted'
        /\ studioFlow # << >> /\ studioFlow' # << >>
        /\ Diagram(Ed') # Diagram(Ed) )
      => studioFlow' = << Diagram(Ed') >> ]_vars

\* A run of handleGenerate has ended: it has passed its finally block.
Ended(call) == ~InFlight(call)

\* C30 (the part a finite run decides): the step that ends a run of
\* handleGenerate leaves isGenerating false; a run that has ended has its
\* message, if the chat still holds it, rewritten as a final assistant
\* message and has its timer cancelled; from then on the run updates its
\* message no more.
C30_EndedRunIsQuiet ==
  [][ \A c \in 1..Len(calls) :
        c <= Len(calls') =>
          /\ ( ~Ended(calls[c]) /\ Ended(calls'[c]) ) => ~isGenerating'
          /\ Ended(calls[c]) =>
               /\ calls[c].timer # "running"
               /\ calls[c].message # NoMessage => calls[c].message.type = "assistant"
               /\ calls'[c].thoughtCounter = calls[c].thoughtCounter
               /\ calls'[c].message \in { calls[c].message, NoMessage } ]_vars

====
